---- MODULE Spec2Model ----
(***************************************************************************)
(* Guardian Asset Console: the in-memory Database (src/api/db.ts), the     *)
(* permission policy (domain/permissions.ts) and the request handlers      *)
(* (src/api/handlers.ts), with the calls of the client (src/api/client.ts) *)
(* that the properties need.                                               *)
(*                                                                         *)
(* Objects are modelled with identity: the store's arrays hold references  *)
(* to asset and incident objects, and the objects themselves live in       *)
(* assetObj / incidentObj.  Scans and audit entries are never mutated      *)
(* after creation, so their arrays hold the records themselves.            *)
(* Names, tag ids and search terms, which the code inspects character by   *)
(* character (toLowerCase, includes), are sequences of one-character       *)
(* strings; an absent search parameter is the empty sequence.  Instants    *)
(* are small integers and ISO timestamps are the strings of IsoTable.      *)
(***************************************************************************)
EXTENDS Integers, Sequences, FiniteSets, TLC

VARIABLES assetObj, incidentObj, assets, incidents, scans, auditLogs, now, op, resp,
          config, flight, gen

vars == <<assetObj, incidentObj, assets, incidents, scans, auditLogs, now, op, resp,
          config, flight, gen>>

(* ------------------------------ bounds --------------------------------- *)

\* the clock starts at NowInit (later than every seed timestamp) and stops at MaxNow
NowInit == 3
MaxNow == 4
\* scans and audit entries that may be added on top of the seed ones
MaxScans == 1
MaxAudit == 1

\* the longest list of assets that is sorted
MaxSortLen == 3

\* the calls that the client makes, any of them in flight at once
MaxFlight == 2

\* the assets and the audit entries that a call of generateSeedData makes
MaxSeedCount == 2

(* ------------------------------ values --------------------------------- *)

\* null / undefined: an absent header, query parameter, body field or optional field
Null == "<null>"

\* JavaScript truthiness of a string or null
Truthy(v) == v # Null /\ v # ""

Roles == {"operator", "admin", "auditor"}

PermissionActions ==
  {"view_assets", "view_asset_detail", "resolve_incident", "view_audit",
   "create_scan", "filter_assets", "search_assets"}

\* the ISO-8601 strings of the instants 0, 1, 2, ... (one tick = one millisecond)
IsoTable ==
  <<"2024-01-15T00:00:00.000Z", "2024-01-15T00:00:00.001Z", "2024-01-15T00:00:00.002Z",
    "2024-01-15T00:00:00.003Z", "2024-01-15T00:00:00.004Z", "2024-01-15T00:00:00.005Z",
    "2024-01-15T00:00:00.006Z", "2024-01-15T00:00:00.007Z", "2024-01-15T00:00:00.008Z",
    "2024-01-15T00:00:00.009Z">>

\* new Date(ms).toISOString()
toISOString(ms) == IsoTable[ms + 1]

\* new Date(iso).getTime()
getTime(iso) == (CHOOSE i \in 1..Len(IsoTable) : IsoTable[i] = iso) - 1

\* the outcomes of Math.random().toString(36).substring(2, 9) that are drawn
RandomSuffixes == {"k3x9q2a"}

(* ------------------------- strings as sequences ------------------------ *)

\* String.prototype.trim on the reasons that are sent
trim(s) ==
  CASE s = "   " -> ""
    [] s = "  Test resolution " -> "Test resolution"
    [] OTHER -> s

LowerChar(c) ==
  CASE c = "P" -> "p"
    [] c = "C" -> "c"
    [] c = "R" -> "r"
    [] OTHER -> c

\* String.prototype.toLowerCase
toLowerCase(s) == [i \in 1..Len(s) |-> LowerChar(s[i])]

\* String.prototype.includes
includes(s, term) ==
  \E i \in 0..(Len(s) - Len(term)) : SubSeq(s, i + 1, i + Len(term)) = term

(* ------------------------------ policy --------------------------------- *)

\* can with create_scan left in the auditor's list
can_AuditorCreatesScan(role, action) ==
  IF role = "admin" THEN TRUE
  ELSE IF role = "operator"
    THEN action \in {"view_assets", "view_asset_detail", "filter_assets",
                     "search_assets", "create_scan"}
  ELSE IF role = "auditor"
    THEN action \in {"view_assets", "view_asset_detail", "view_audit",
                     "filter_assets", "search_assets", "create_scan"}
  ELSE FALSE

\* can with resolve_incident in the auditor's list
can_AuditorResolves(role, action) ==
  IF role = "admin" THEN TRUE
  ELSE IF role = "operator"
    THEN action \in {"view_assets", "view_asset_detail", "filter_assets",
                     "search_assets", "create_scan"}
  ELSE IF role = "auditor"
    THEN action \in {"view_assets", "view_asset_detail", "view_audit",
                     "filter_assets", "search_assets", "resolve_incident"}
  ELSE FALSE

can(role, action) ==
  IF role = "admin" THEN TRUE
  ELSE IF role = "operator"
    THEN action \in {"view_assets", "view_asset_detail", "filter_assets",
                     "search_assets", "create_scan"}
  ELSE IF role = "auditor"
    THEN action \in {"view_assets", "view_asset_detail", "view_audit",
                     "filter_assets", "search_assets"}
  ELSE FALSE

allActions ==
  <<"view_assets", "view_asset_detail", "resolve_incident", "view_audit",
    "create_scan", "filter_assets", "search_assets">>

getRolePermissions(role) ==
  LET Allowed(action) == can(role, action)
  IN SelectSeq(allActions, Allowed)

(* ----------------------------- seed data -------------------------------- *)

\* identities of the asset objects and of the incident objects built by the
\* seed generator (A*, I*) and by a caller of initialize(seedData) (X*)
AssetRefs == {"A1", "A2"}

IncidentRefs == {"I1", "I2", "X1", "X2"}

NoDetails == [k \in {} |-> Null]

\* the asset objects as generateSeedData builds them
SeedAssetObj ==
  [r \in AssetRefs |->
     IF r = "A1"
       THEN [id |-> "asset-1", tagId |-> <<"R", "1">>, name |-> <<"P", "1">>,
             site |-> "Site Alpha", status |-> "missing", severity |-> "high",
             lastSeenAt |-> toISOString(2), createdAt |-> toISOString(0)]
       ELSE [id |-> "asset-2", tagId |-> <<"R", "2">>, name |-> <<"C", "2">>,
             site |-> "Site Bravo", status |-> "anomaly", severity |-> "low",
             lastSeenAt |-> toISOString(1), createdAt |-> toISOString(0)]]

\* the incident objects: I1 open, I2 resolved by a seed admin (generateSeedData);
\* X1 and X2 are two open incidents of asset-1, the older one first
SeedIncidentObj ==
  [r \in IncidentRefs |->
     CASE r = "I1" ->
            [id |-> "incident-1", assetId |-> "asset-1", severity |-> "high",
             description |-> "Asset not detected at expected location",
             createdAt |-> toISOString(1),
             resolvedAt |-> Null, resolvedBy |-> Null, resolutionReason |-> Null]
       [] r = "I2" ->
            [id |-> "incident-2", assetId |-> "asset-2", severity |-> "low",
             description |-> "Signal anomaly detected on RFID tag",
             createdAt |-> toISOString(0),
             resolvedAt |-> toISOString(1), resolvedBy |-> "user-002",
             resolutionReason |-> "Issue investigated and resolved per SOP."]
       [] r = "X1" ->
            [id |-> "incident-x1", assetId |-> "asset-1", severity |-> "high",
             description |-> "Tag signal strength below threshold",
             createdAt |-> toISOString(0),
             resolvedAt |-> Null, resolvedBy |-> Null, resolutionReason |-> Null]
       [] OTHER ->
            [id |-> "incident-x2", assetId |-> "asset-1", severity |-> "high",
             description |-> "Unauthorized zone transition detected",
             createdAt |-> toISOString(2),
             resolvedAt |-> Null, resolvedBy |-> Null, resolutionReason |-> Null]]

SeedScans ==
  <<[id |-> <<"scan", "5e1f0a2b", "seed">>, assetId |-> "asset-1", site |-> "Site Alpha",
     scannedAt |-> toISOString(2), readerId |-> "READER-001"],
    [id |-> <<"scan", "9c3d7e4f", "seed">>, assetId |-> "asset-2", site |-> "Site Bravo",
     scannedAt |-> toISOString(1), readerId |-> "READER-002"]>>

\* sorted by timestamp, most recent first
SeedAuditLogs ==
  <<[id |-> <<"audit", "7a2c1d9e", "seed">>, userId |-> "user-003", action |-> "asset.view",
     resourceType |-> "asset", resourceId |-> "asset-1",
     details |-> [userName |-> "Carol Auditor", assetName |-> "P1"],
     timestamp |-> toISOString(2)],
    [id |-> <<"audit", "4b8e6f0a", "seed">>, userId |-> "user-002", action |-> "incident.resolve",
     resourceType |-> "incident", resourceId |-> "asset-2",
     details |-> [userName |-> "Bob Admin", assetName |-> "C2"],
     timestamp |-> toISOString(1)]>>

DEFAULT_SEED_DATA ==
  [assets |-> <<"A1", "A2">>, scans |-> SeedScans,
   incidents |-> <<"I1", "I2">>, auditLogs |-> SeedAuditLogs]

\* seed data a caller passes to initialize: the default with two open incidents on asset-1
CUSTOM_SEED_DATA ==
  [assets |-> <<"A1", "A2">>, scans |-> SeedScans,
   incidents |-> <<"X1", "X2", "I2">>, auditLogs |-> SeedAuditLogs]

(* ------------------------------ Database -------------------------------- *)

\* the Database instance with the objects its arrays refer to
db ==
  [assetObj |-> assetObj, incidentObj |-> incidentObj, assets |-> assets,
   incidents |-> incidents, scans |-> scans, auditLogs |-> auditLogs]

\* the arrays become copies of the seed arrays; the objects in them are the seed's own
initialize(d, seedData) ==
  [d EXCEPT !.assets = seedData.assets, !.scans = seedData.scans,
            !.incidents = seedData.incidents, !.auditLogs = seedData.auditLogs]

\* what the arrays hold, objects read through their references
getAssets(d) == [i \in 1..Len(d.assets) |-> d.assetObj[d.assets[i]]]

getScans(d) == d.scans

getIncidents(d) == [i \in 1..Len(d.incidents) |-> d.incidentObj[d.incidents[i]]]

getAuditLogs(d) == d.auditLogs

Min(S) == CHOOSE x \in S : \A y \in S : x <= y

\* the reference of the first asset with that id, or Null
getAssetById(d, id) ==
  LET hits == {i \in 1..Len(d.assets) : d.assetObj[d.assets[i]].id = id}
  IN IF hits = {} THEN Null ELSE d.assets[Min(hits)]

\* Array.prototype.slice(0, n)
slice0(s, n) ==
  LET e == IF n < 0 THEN (IF Len(s) + n < 0 THEN 0 ELSE Len(s) + n)
           ELSE IF n > Len(s) THEN Len(s) ELSE n
  IN SubSeq(s, 1, e)

\* x put behind every element of the sorted sequence that does not sort after it
\* (Array.prototype.sort is stable), for the comparator time(b) - time(a)
RECURSIVE InsertDesc(_, _, _)
InsertDesc(x, tx, sorted) ==
  IF sorted = <<>> THEN <<[v |-> x, t |-> tx]>>
  ELSE IF Head(sorted).t >= tx THEN <<Head(sorted)>> \o InsertDesc(x, tx, Tail(sorted))
       ELSE <<[v |-> x, t |-> tx]>> \o sorted

RECURSIVE SortDescTagged(_)
SortDescTagged(tagged) ==
  IF tagged = <<>> THEN <<>>
  ELSE LET n == Len(tagged)
       IN InsertDesc(tagged[n].v, tagged[n].t, SortDescTagged(SubSeq(tagged, 1, n - 1)))

\* the values left in the order they have
sortDesc_Unsorted(vs, ts) == vs

\* sort((a, b) => time(b) - time(a)) of the values vs whose times are ts
sortDesc(vs, ts) ==
  LET sorted == SortDescTagged([i \in 1..Len(vs) |-> [v |-> vs[i], t |-> ts[i]]])
  IN [i \in 1..Len(sorted) |-> sorted[i].v]

\* getScansByAssetId without the sort: the asset's scans in the store's order
getScansByAssetId_StoreOrder(d, assetId) ==
  LET Mine(scan) == scan.assetId = assetId
  IN SelectSeq(d.scans, Mine)

getScansByAssetId(d, assetId) ==
  LET Mine(scan) == scan.assetId = assetId
      mine == SelectSeq(d.scans, Mine)
  IN sortDesc(mine, [i \in 1..Len(mine) |-> getTime(mine[i].scannedAt)])

getIncidentsByAssetId(d, assetId) ==
  LET Mine(r) == d.incidentObj[r].assetId = assetId
      mine == SelectSeq(d.incidents, Mine)
      sorted == sortDesc(mine, [i \in 1..Len(mine) |-> getTime(d.incidentObj[mine[i]].createdAt)])
  IN [i \in 1..Len(sorted) |-> d.incidentObj[sorted[i]]]

\* `${prefix}-${Date.now()}-${Math.random().toString(36).substring(2, 9)}`
newId(prefix, t, rnd) == <<prefix, ToString(t), rnd>>

\* lastSeenAt replaced by every scan
newerLastSeenAt_Always(lastSeenAt, scannedAt) == scannedAt

\* the asset's lastSeenAt after a scan of it: replaced if this scan is newer
newerLastSeenAt(lastSeenAt, scannedAt) ==
  IF getTime(scannedAt) > getTime(lastSeenAt) THEN scannedAt ELSE lastSeenAt

\* createScan that keeps only the latest scan of an asset
createScan_KeepLatest(d, scan, t, rnd) ==
  LET newScan == [id |-> newId("scan", t, rnd), assetId |-> scan.assetId, site |-> scan.site,
                  scannedAt |-> scan.scannedAt, readerId |-> scan.readerId]
      Others(s) == s.assetId # scan.assetId
  IN [db |-> [d EXCEPT !.scans = Append(SelectSeq(d.scans, Others), newScan)],
      ret |-> newScan]

\* createScan that also moves the asset to the site of the scan
createScan_MovesAsset(d, scan, t, rnd) ==
  LET newScan == [id |-> newId("scan", t, rnd), assetId |-> scan.assetId, site |-> scan.site,
                  scannedAt |-> scan.scannedAt, readerId |-> scan.readerId]
      asset == getAssetById(d, scan.assetId)
      objs == IF asset # Null
                THEN [d.assetObj EXCEPT ![asset].lastSeenAt = newerLastSeenAt(@, scan.scannedAt),
                                        ![asset].site = scan.site]
                ELSE d.assetObj
  IN [db |-> [d EXCEPT !.scans = Append(d.scans, newScan), !.assetObj = objs],
      ret |-> newScan]

\* createScan(scan) at instant t with random suffix rnd: the database after it and the scan returned
createScan(d, scan, t, rnd) ==
  LET newScan == [id |-> newId("scan", t, rnd), assetId |-> scan.assetId, site |-> scan.site,
                  scannedAt |-> scan.scannedAt, readerId |-> scan.readerId]
      asset == getAssetById(d, scan.assetId)
      objs == IF asset # Null
                THEN [d.assetObj EXCEPT ![asset].lastSeenAt = newerLastSeenAt(@, scan.scannedAt)]
                ELSE d.assetObj
  IN [db |-> [d EXCEPT !.scans = Append(d.scans, newScan), !.assetObj = objs],
      ret |-> newScan]

\* every incident of the asset, resolved or not
unresolvedIncidentsOf_Any(d, assetId) ==
  LET OfAsset(r) == d.incidentObj[r].assetId = assetId
  IN SelectSeq(d.incidents, OfAsset)

\* the references of the unresolved incidents of the asset, in the store's order
unresolvedIncidentsOf(d, assetId) ==
  LET Unresolved(r) == d.incidentObj[r].assetId = assetId /\ ~Truthy(d.incidentObj[r].resolvedAt)
  IN SelectSeq(d.incidents, Unresolved)

\* the incident object with the reason left unassigned
markResolved_NoReason(incident, resolvedBy, resolutionReason, t) ==
  [incident EXCEPT !.resolvedAt = toISOString(t), !.resolvedBy = resolvedBy]

\* the resolution that records actor and reason and leaves resolvedAt unset
markResolved_NoTime(incident, resolvedBy, resolutionReason, t) ==
  [incident EXCEPT !.resolvedBy = resolvedBy, !.resolutionReason = resolutionReason]

\* the incident object after the three assignments that resolve it
markResolved(incident, resolvedBy, resolutionReason, t) ==
  [incident EXCEPT !.resolvedAt = toISOString(t),
                   !.resolvedBy = resolvedBy,
                   !.resolutionReason = resolutionReason]

\* resolveIncident with the audit entry pushed to the end of the array
resolveIncident_Push(d, assetId, resolvedBy, resolutionReason, t, rnd) ==
  LET unresolvedIncidents == unresolvedIncidentsOf(d, assetId)
      sorted == sortDesc(unresolvedIncidents,
                         [i \in 1..Len(unresolvedIncidents) |->
                            getTime(d.incidentObj[unresolvedIncidents[i]].createdAt)])
  IN IF sorted = <<>>
       THEN [threw |-> TRUE, message |-> <<"No unresolved incident found for asset ", assetId>>]
       ELSE LET incident == sorted[1]
                incObjs == [d.incidentObj EXCEPT
                              ![incident] = markResolved(@, resolvedBy, resolutionReason, t)]
                asset == getAssetById(d, assetId)
                objs == IF asset # Null THEN [d.assetObj EXCEPT ![asset].status = "resolved"]
                        ELSE d.assetObj
                auditLog == [id |-> newId("audit", t, rnd), userId |-> resolvedBy,
                             action |-> "incident.resolve", resourceType |-> "incident",
                             resourceId |-> d.incidentObj[incident].id,
                             details |-> [assetId |-> assetId,
                                          incidentId |-> d.incidentObj[incident].id,
                                          resolutionReason |-> resolutionReason],
                             timestamp |-> toISOString(t)]
            IN [threw |-> FALSE,
                db |-> [d EXCEPT !.incidentObj = incObjs, !.assetObj = objs,
                                 !.auditLogs = Append(d.auditLogs, auditLog)],
                ret |-> incObjs[incident]]

\* resolveIncident that leaves the audit entry to a later step
resolveIncident_AuditLater(d, assetId, resolvedBy, resolutionReason, t, rnd) ==
  LET unresolvedIncidents == unresolvedIncidentsOf(d, assetId)
      sorted == sortDesc(unresolvedIncidents,
                         [i \in 1..Len(unresolvedIncidents) |->
                            getTime(d.incidentObj[unresolvedIncidents[i]].createdAt)])
  IN IF sorted = <<>>
       THEN [threw |-> TRUE, message |-> <<"No unresolved incident found for asset ", assetId>>]
       ELSE LET incident == sorted[1]
                incObjs == [d.incidentObj EXCEPT
                              ![incident] = markResolved(@, resolvedBy, resolutionReason, t)]
                asset == getAssetById(d, assetId)
                objs == IF asset # Null THEN [d.assetObj EXCEPT ![asset].status = "resolved"]
                        ELSE d.assetObj
            IN [threw |-> FALSE,
                db |-> [d EXCEPT !.incidentObj = incObjs, !.assetObj = objs],
                ret |-> incObjs[incident]]

\* resolveIncident(assetId, resolvedBy, resolutionReason) at instant t with random suffix rnd:
\* either it throws, or the database after it and the incident returned
resolveIncident(d, assetId, resolvedBy, resolutionReason, t, rnd) ==
  LET unresolvedIncidents == unresolvedIncidentsOf(d, assetId)
      sorted == sortDesc(unresolvedIncidents,
                         [i \in 1..Len(unresolvedIncidents) |->
                            getTime(d.incidentObj[unresolvedIncidents[i]].createdAt)])
  IN IF sorted = <<>>
       THEN [threw |-> TRUE, message |-> <<"No unresolved incident found for asset ", assetId>>]
       ELSE LET incident == sorted[1]
                incObjs == [d.incidentObj EXCEPT
                              ![incident] = markResolved(@, resolvedBy, resolutionReason, t)]
                asset == getAssetById(d, assetId)
                objs == IF asset # Null THEN [d.assetObj EXCEPT ![asset].status = "resolved"]
                        ELSE d.assetObj
                auditLog == [id |-> newId("audit", t, rnd), userId |-> resolvedBy,
                             action |-> "incident.resolve", resourceType |-> "incident",
                             resourceId |-> d.incidentObj[incident].id,
                             details |-> [assetId |-> assetId,
                                          incidentId |-> d.incidentObj[incident].id,
                                          resolutionReason |-> resolutionReason],
                             timestamp |-> toISOString(t)]
            IN [threw |-> FALSE,
                db |-> [d EXCEPT !.incidentObj = incObjs, !.assetObj = objs,
                                 !.auditLogs = <<auditLog>> \o d.auditLogs],
                ret |-> incObjs[incident]]

\* createAuditLog that pushes the entry to the end of the array
createAuditLog_Push(d, log, t, rnd) ==
  LET newLog == [id |-> newId("audit", t, rnd), userId |-> log.userId, action |-> log.action,
                 resourceType |-> log.resourceType, resourceId |-> log.resourceId,
                 details |-> log.details, timestamp |-> log.timestamp]
  IN [db |-> [d EXCEPT !.auditLogs = Append(d.auditLogs, newLog)], ret |-> newLog]

\* createAuditLog(log) at instant t with random suffix rnd
createAuditLog(d, log, t, rnd) ==
  LET newLog == [id |-> newId("audit", t, rnd), userId |-> log.userId, action |-> log.action,
                 resourceType |-> log.resourceType, resourceId |-> log.resourceId,
                 details |-> log.details, timestamp |-> log.timestamp]
  IN [db |-> [d EXCEPT !.auditLogs = <<newLog>> \o d.auditLogs], ret |-> newLog]

reset(d) == initialize(d, DEFAULT_SEED_DATA)

(* --------------------------- seed generator ----------------------------- *)

\* A 32-bit word is the pair <<high, low>> of its 16-bit halves.  The generator's seed
\* is a number that grows with every draw; the bit operations see it modulo 2^32.
Half == 65536

\* x ^ y and x | y of two 4-bit numbers, bit by bit
RECURSIVE xorBits(_, _)
xorBits(x, y) ==
  IF x = 0 THEN y ELSE IF y = 0 THEN x
  ELSE ((x + y) % 2) + 2 * xorBits(x \div 2, y \div 2)

RECURSIVE orBits(_, _)
orBits(x, y) ==
  IF x = 0 THEN y ELSE IF y = 0 THEN x
  ELSE (IF x % 2 = 1 \/ y % 2 = 1 THEN 1 ELSE 0) + 2 * orBits(x \div 2, y \div 2)

Xor4 == [x \in 0..15 |-> [y \in 0..15 |-> xorBits(x, y)]]

xor16(x, y) ==
  Xor4[x % 16][y % 16]
    + 16 * Xor4[(x \div 16) % 16][(y \div 16) % 16]
    + 256 * Xor4[(x \div 256) % 16][(y \div 256) % 16]
    + 4096 * Xor4[x \div 4096][y \div 4096]

\* a ^ b
xor32(a, b) == <<xor16(a[1], b[1]), xor16(a[2], b[2])>>

\* a | n for n below 64
or32(a, n) == <<a[1], (a[2] \div 64) * 64 + orBits(a[2] % 64, n)>>

\* a + b modulo 2^32
add32(a, b) ==
  LET low == a[2] + b[2]
  IN <<(a[1] + b[1] + low \div Half) % Half, low % Half>>

\* a >>> n for n from 1 to 15
shr32(a, n) ==
  LET p == 2 ^ n
      q == 2 ^ (16 - n)
  IN <<a[1] \div p, (a[1] % p) * q + a[2] \div p>>

\* Math.imul(a, b): the low 32 bits of the product, from products of 16 by 8 bits
imul(a, b) ==
  LET mul16(x, y) ==
        LET p0 == x * (y % 256)
            p1 == x * (y \div 256)
            low == p0 + (p1 % 256) * 256
        IN <<p1 \div 256 + low \div Half, low % Half>>
      mulLow16(x, y) == (x * (y % 256) + ((x * (y \div 256)) % 256) * 256) % Half
      ll == mul16(a[2], b[2])
  IN <<(ll[1] + mulLow16(a[1], b[2]) + mulLow16(a[2], b[1])) % Half, ll[2]>>

\* the word that one call of the generator returns (over 2^32) when its seed has become s
mulberry32(s) ==
  LET t1 == imul(xor32(s, shr32(s, 15)), or32(s, 1))
      t2 == xor32(t1, add32(t1, imul(xor32(t1, shr32(t1, 7)), or32(t1, 61))))
  IN xor32(t2, shr32(t2, 14))

\* seed += 0x6d2b79f5, k times over (k below 2^15)
seedAfter(seed, k) ==
  LET low == seed[2] + k * 31221
  IN <<(seed[1] + k * 27947 + low \div Half) % Half, low % Half>>

\* createRng(seed): the words that the first k calls return
draws(seed, k) == [n \in 1..k |-> mulberry32(seedAfter(seed, n))]

\* Math.floor(rng() * n) for the word u that the call returned, n below 2^15
floorTimes(u, n) == (u[1] * n + (u[2] * n) \div Half) \div Half

\* pick(rng, items), randomInt(rng, min, max): d holds the words of the calls to come, at
\* is the place of the next one
pick(d, at, items) == items[floorTimes(d[at], Len(items)) + 1]

randomInt(d, at, min, max) == floorTimes(d[at], max - min + 1) + min

\* rng() < p for the probability p = num / den
below(d, at, p) == floorTimes(d[at], p.den) < p.num

\* generateId(rng, prefix): 28 hexadecimal digits in segments of 8, 4, 4 and 12
generateId(d, at, prefix) ==
  LET segment(from, len) == [k \in 1..len |-> floorTimes(d[at + from + k - 1], 16)]
  IN <<prefix, segment(0, 8), segment(8, 4), segment(12, 4), segment(16, 12)>>

BASE_DATE == "2024-01-15T00:00:00.000Z"

\* the timestamp that reads the clock instead of BASE_DATE
generateTimestamp_WallClock(d, at, daysBack) ==
  [base |-> toISOString(now),
   minusSeconds |-> daysBack * 86400 + randomInt(d, at, 0, 23) * 3600
                      + randomInt(d, at + 1, 0, 59) * 60 + randomInt(d, at + 2, 0, 59)]

\* generateTimestamp(rng, daysBack): the instant that lies the offset before BASE_DATE; the
\* offset is in whole seconds
generateTimestamp(d, at, daysBack) ==
  [base |-> BASE_DATE,
   minusSeconds |-> daysBack * 86400 + randomInt(d, at, 0, 23) * 3600
                      + randomInt(d, at + 1, 0, 59) * 60 + randomInt(d, at + 2, 0, 59)]

SITES == <<"Site Alpha", "Site Bravo", "Site Charlie", "Site Delta", "Site Echo">>

ASSET_PREFIXES == <<"Pallet", "Container", "Crate", "Drum", "Rack", "Carton", "Bin", "Tote">>

\* prefix.toLowerCase() for the prefixes
lowerPrefix ==
  [Pallet |-> "pallet", Container |-> "container", Crate |-> "crate", Drum |-> "drum",
   Rack |-> "rack", Carton |-> "carton", Bin |-> "bin", Tote |-> "tote"]

READER_IDS == <<"READER-001", "READER-002", "READER-003", "READER-004", "READER-005">>

SEVERITIES == <<"critical", "high", "medium", "low", "info">>

STATUSES == <<"active", "missing", "anomaly", "resolved">>

INCIDENT_DESCRIPTIONS ==
  <<"Asset not detected at expected location",
    "Unexpected movement detected outside business hours",
    "Signal anomaly detected on RFID tag",
    "Asset moved to restricted zone without authorization",
    "Multiple scans from different locations within short timeframe",
    "Tag signal strength below threshold",
    "Asset missing from scheduled inventory check",
    "Unauthorized zone transition detected">>

AUDIT_ACTIONS ==
  <<"asset.view", "asset.update", "incident.resolve", "incident.create", "scan.create",
    "user.login", "user.logout", "filter.apply">>

SEED_USERS ==
  <<[id |-> "user-001", name |-> "Alice Operator", role |-> "operator"],
    [id |-> "user-002", name |-> "Bob Admin", role |-> "admin"],
    [id |-> "user-003", name |-> "Carol Auditor", role |-> "auditor"],
    [id |-> "user-004", name |-> "Dave Operator", role |-> "operator"],
    [id |-> "user-005", name |-> "Eve Admin", role |-> "admin"]>>

\* the calls of rng that an asset, a scan, an incident and an audit entry take
AssetDraws == 41

ScanDraws(j) == IF j = 0 THEN 33 ELSE 34

RECURSIVE ScansDraws(_)
ScansDraws(n) == IF n = 0 THEN 0 ELSE ScansDraws(n - 1) + ScanDraws(n - 1)

IncidentDraws == 39

AuditLogDraws == 35

\* the asset of pass i of the loop (i from 0)
generateAsset(d, i) ==
  LET prefix == pick(d, 1, ASSET_PREFIXES)
      site == pick(d, 2, SITES)
      status == pick(d, 3, STATUSES)
      severity == IF status = "active" \/ status = "resolved"
                    THEN pick(d, 4, <<"low", "info">>)
                    ELSE pick(d, 4, SEVERITIES)
      createdDaysBack == randomInt(d, 5, 30, 365)
      lastSeenDaysBack == randomInt(d, 6, 0, 29)
  IN [id |-> generateId(d, 7, "asset"),
      tagId |-> <<"RFID-", i + 1>>,
      name |-> <<prefix, "-", i + 1>>,
      site |-> site,
      status |-> status,
      severity |-> severity,
      lastSeenAt |-> generateTimestamp(d, 35, lastSeenDaysBack),
      createdAt |-> generateTimestamp(d, 38, createdDaysBack),
      metadata |-> [category |-> lowerPrefix[prefix],
                    zone |-> <<"Zone-", pick(d, 41, <<"A", "B", "C", "D">>)>>]]

\* scan j of the asset, its calls of rng starting after place at
generateScan(d, at, j, asset) ==
  LET scanDaysBack == randomInt(d, at + 1, 0, 29)
      shift == IF j = 0 THEN 0 ELSE 1
  IN [id |-> generateId(d, at + 2, "scan"),
      assetId |-> asset.id,
      site |-> IF j = 0 THEN asset.site ELSE pick(d, at + 30, SITES),
      scannedAt |-> generateTimestamp(d, at + 30 + shift, scanDaysBack),
      readerId |-> pick(d, at + 33 + shift, READER_IDS)]

\* the incident of the asset, if one is made, and the calls of rng taken
generateIncident(d, at, asset, opts) ==
  IF ~(asset.status = "missing" \/ asset.status = "anomaly") THEN [made |-> FALSE, used |-> 0]
  ELSE IF ~below(d, at + 1, opts.incidentProbability) THEN [made |-> FALSE, used |-> 1]
  ELSE LET incidentDaysBack == randomInt(d, at + 2, 0, 14)
           isResolved == asset.status = "resolved" \/ below(d, at + 3, [num |-> 1, den |-> 5])
           admins == SelectSeq(SEED_USERS, LAMBDA u : u.role = "admin")
       IN [made |-> TRUE,
           used |-> IF isResolved THEN 39 ELSE 35,
           incident |->
             [id |-> generateId(d, at + 4, "incident"),
              assetId |-> asset.id,
              severity |-> asset.severity,
              description |-> pick(d, at + 32, INCIDENT_DESCRIPTIONS),
              createdAt |-> generateTimestamp(d, at + 33, incidentDaysBack),
              resolvedAt |-> IF isResolved
                               THEN generateTimestamp(d, at + 36,
                                      IF incidentDaysBack - 1 > 0 THEN incidentDaysBack - 1 ELSE 0)
                               ELSE [base |-> Null, minusSeconds |-> 0],   \* absent
              resolvedBy |-> IF isResolved THEN pick(d, at + 39, admins).id ELSE Null,
              resolutionReason |-> IF isResolved
                                     THEN "Issue investigated and resolved per SOP."
                                     ELSE Null]]

\* action.startsWith('user') ? 'user' : ... : 'asset'
resourceTypeOf(action) ==
  CASE action \in {"user.login", "user.logout"} -> "user"
    [] action \in {"incident.resolve", "incident.create"} -> "incident"
    [] action = "scan.create" -> "scan"
    [] OTHER -> "asset"

generateAuditLog(d, generatedAssets) ==
  LET daysBack == randomInt(d, 1, 0, 30)
      action == pick(d, 2, AUDIT_ACTIONS)
      user == pick(d, 3, SEED_USERS)
      asset == pick(d, 4, generatedAssets)
      resourceType == resourceTypeOf(action)
  IN [id |-> generateId(d, 5, "audit"),
      userId |-> user.id,
      action |-> action,
      resourceType |-> resourceType,
      resourceId |-> IF resourceType = "user" THEN <<user.id>> ELSE asset.id,
      details |-> [userName |-> user.name,
                   assetName |-> IF resourceType # "user" THEN asset.name ELSE <<Null>>],
      timestamp |-> generateTimestamp(d, 33, daysBack)]

\* generateSeedData as it begins: the options merged, the generator created, the arrays empty
beginSeedData(options) ==
  [pc |-> "running", opts |-> options, rng |-> <<options.seed \div Half, options.seed % Half>>, i |-> 0, j |-> 0,
   assets |-> <<>>, scans |-> <<>>, incidents |-> <<>>, auditLogs |-> <<>>]

\* one pass of the loop over the assets: the asset, its scans and perhaps its incident
assetPass(g) ==
  LET n == g.opts.scansPerAsset
      d == draws(g.rng, AssetDraws + ScansDraws(n) + IncidentDraws)
      asset == generateAsset(d, g.i)
      newScans == [j \in 1..n |-> generateScan(d, AssetDraws + ScansDraws(j - 1), j - 1, asset)]
      inc == generateIncident(d, AssetDraws + ScansDraws(n), asset, g.opts)
  IN [g EXCEPT !.rng = seedAfter(g.rng, AssetDraws + ScansDraws(n) + inc.used),
               !.i = g.i + 1,
               !.assets = Append(g.assets, asset),
               !.scans = g.scans \o newScans,
               !.incidents = IF inc.made THEN Append(g.incidents, inc.incident)
                             ELSE g.incidents]

\* one pass of the loop over the audit entries
auditLogPass(g) ==
  LET d == draws(g.rng, AuditLogDraws)
  IN [g EXCEPT !.rng = seedAfter(g.rng, AuditLogDraws),
               !.j = g.j + 1,
               !.auditLogs = Append(g.auditLogs, generateAuditLog(d, g.assets))]

\* the audit entries sorted, most recent first, and the collections returned
returnSeedData(g) ==
  [pc |-> "returned", opts |-> g.opts,
   data |-> [users |-> SEED_USERS, assets |-> g.assets, scans |-> g.scans,
             incidents |-> g.incidents,
             auditLogs |-> sortDesc(g.auditLogs,
                                    [k \in 1..Len(g.auditLogs) |->
                                       0 - g.auditLogs[k].timestamp.minusSeconds])]]

(* ------------------------------ handlers -------------------------------- *)

\* a request carries its headers (role, userId), path and query parameters and body
\* fields; Null stands for a header, parameter or field that is not sent

\* getRoleFromRequest with admin as the default
getRoleFromRequest_DefaultAdmin(request) ==
  IF request.role = "admin" \/ request.role = "operator" \/ request.role = "auditor"
    THEN request.role
    ELSE "admin"

getRoleFromRequest(request) ==
  IF request.role = "admin" \/ request.role = "operator" \/ request.role = "auditor"
    THEN request.role
    ELSE "operator"

getUserIdFromRequest(request) ==
  IF Truthy(request.userId) THEN request.userId ELSE "user-001"

\* HttpResponse.json(body, {status})
Json(body, status) == [status |-> status, body |-> body]

Forbidden(d, message) == [db |-> d, resp |-> Json([error |-> message], 403)]

\* a JSON value that is not a string: the number 5
Number5 == "<5>"

isString(v) == v \notin {Null, Number5}

\* an exception that leaves the handler: the mock service worker answers for it with
\* status 500 and the exception as the body
unhandledException(d, name) == [db |-> d, resp |-> Json([name |-> name], 500)]

\* getAssetsHandler that keeps the assets matching any of the filters
getAssetsHandler_AnyFilter(d, request) ==
  LET role == getRoleFromRequest(request)
      site == request.query.site
      status == request.query.status
      severity == request.query.severity
      search == request.query.search
      term == toLowerCase(search)
      ByAny(a) ==
        \/ Truthy(site) /\ a.site = site
        \/ Truthy(status) /\ a.status = status
        \/ Truthy(severity) /\ a.severity = severity
        \/ search # <<>> /\ (includes(toLowerCase(a.name), term)
                               \/ includes(toLowerCase(a.tagId), term))
      all == getAssets(d)
      filtered == IF Truthy(site) \/ Truthy(status) \/ Truthy(severity) \/ search # <<>>
                    THEN SelectSeq(all, ByAny) ELSE all
  IN IF ~can(role, "view_assets")
       THEN Forbidden(d, <<"Forbidden">>)
       ELSE [db |-> d, resp |-> Json(filtered, 200)]

getAssetsHandler(d, request) ==
  LET role == getRoleFromRequest(request)
      site == request.query.site
      status == request.query.status
      severity == request.query.severity
      search == request.query.search
      BySite(a) == a.site = site
      ByStatus(a) == a.status = status
      BySeverity(a) == a.severity = severity
      term == toLowerCase(search)
      BySearch(a) == includes(toLowerCase(a.name), term) \/ includes(toLowerCase(a.tagId), term)
      all == getAssets(d)
      f1 == IF Truthy(site) THEN SelectSeq(all, BySite) ELSE all
      f2 == IF Truthy(status) THEN SelectSeq(f1, ByStatus) ELSE f1
      f3 == IF Truthy(severity) THEN SelectSeq(f2, BySeverity) ELSE f2
      f4 == IF search # <<>> THEN SelectSeq(f3, BySearch) ELSE f3
  IN IF ~can(role, "view_assets")
       THEN Forbidden(d, <<"Forbidden">>)
       ELSE [db |-> d, resp |-> Json(f4, 200)]

getAssetByIdHandler(d, request) ==
  LET role == getRoleFromRequest(request)
      asset == getAssetById(d, request.id)
  IN IF ~can(role, "view_asset_detail")
       THEN Forbidden(d, <<"Forbidden">>)
     ELSE IF asset = Null
       THEN [db |-> d, resp |-> Json([error |-> <<"Asset not found">>], 404)]
     ELSE [db |-> d,
           resp |-> Json([asset |-> d.assetObj[asset],
                          scans |-> getScansByAssetId(d, request.id),
                          incidents |-> getIncidentsByAssetId(d, request.id)], 200)]

\* createScanHandler without the check that the asset exists
createScanHandler_NoAssetCheck(d, request, t, rnd) ==
  LET role == getRoleFromRequest(request)
      body == request.body
      created == createScan(d, [assetId |-> body.assetId, site |-> body.site,
                                readerId |-> body.readerId, scannedAt |-> toISOString(t)],
                            t, rnd)
  IN IF ~can(role, "create_scan")
       THEN Forbidden(d, <<"Forbidden">>)
     ELSE IF ~Truthy(body.assetId) \/ ~Truthy(body.site) \/ ~Truthy(body.readerId)
       THEN [db |-> d,
             resp |-> Json([error |-> <<"Missing required fields: assetId, site, readerId">>], 400)]
     ELSE [db |-> created.db, resp |-> Json(created.ret, 201)]

\* createScanHandler that looks the asset up before it validates the body
createScanHandler_LookupFirst(d, request, t, rnd) ==
  LET role == getRoleFromRequest(request)
      body == request.body
      created == createScan(d, [assetId |-> body.assetId, site |-> body.site,
                                readerId |-> body.readerId, scannedAt |-> toISOString(t)],
                            t, rnd)
  IN IF ~can(role, "create_scan")
       THEN Forbidden(d, <<"Forbidden">>)
     ELSE IF getAssetById(d, body.assetId) = Null
       THEN [db |-> d, resp |-> Json([error |-> <<"Asset not found">>], 404)]
     ELSE IF ~Truthy(body.assetId) \/ ~Truthy(body.site) \/ ~Truthy(body.readerId)
       THEN [db |-> d,
             resp |-> Json([error |-> <<"Missing required fields: assetId, site, readerId">>], 400)]
     ELSE [db |-> created.db, resp |-> Json(created.ret, 201)]

\* t is the instant of the clock, rnd the random suffix the store draws
createScanHandler(d, request, t, rnd) ==
  LET role == getRoleFromRequest(request)
      body == request.body
      created == createScan(d, [assetId |-> body.assetId, site |-> body.site,
                                readerId |-> body.readerId, scannedAt |-> toISOString(t)],
                            t, rnd)
  IN IF ~can(role, "create_scan")
       THEN Forbidden(d, <<"Forbidden">>)
     ELSE IF ~Truthy(body.assetId) \/ ~Truthy(body.site) \/ ~Truthy(body.readerId)
       THEN [db |-> d,
             resp |-> Json([error |-> <<"Missing required fields: assetId, site, readerId">>], 400)]
     ELSE IF getAssetById(d, body.assetId) = Null
       THEN [db |-> d, resp |-> Json([error |-> <<"Asset not found">>], 404)]
     ELSE [db |-> created.db, resp |-> Json(created.ret, 201)]

\* resolveIncidentHandler with the body validated before the role is checked
resolveIncidentHandler_ValidateFirst(d, request, t, rnd) ==
  LET role == getRoleFromRequest(request)
      userId == getUserIdFromRequest(request)
      body == request.body
      resolved == resolveIncident(d, request.assetId, userId, trim(body.reason), t, rnd)
  IN IF ~Truthy(body.reason) \/ trim(body.reason) = ""
       THEN [db |-> d, resp |-> Json([error |-> <<"Resolution reason is required">>], 400)]
     ELSE IF ~can(role, "resolve_incident")
       THEN Forbidden(d, <<"Forbidden: Only admins can resolve incidents">>)
     ELSE IF resolved.threw
       THEN [db |-> d, resp |-> Json([error |-> resolved.message], 404)]
     ELSE [db |-> resolved.db, resp |-> Json(resolved.ret, 200)]

\* resolveIncidentHandler that answers 200 also when the store finds nothing to resolve
resolveIncidentHandler_AlwaysOk(d, request, t, rnd) ==
  LET role == getRoleFromRequest(request)
      userId == getUserIdFromRequest(request)
      body == request.body
      resolved == resolveIncident(d, request.assetId, userId, trim(body.reason), t, rnd)
  IN IF ~can(role, "resolve_incident")
       THEN Forbidden(d, <<"Forbidden: Only admins can resolve incidents">>)
     ELSE IF ~Truthy(body.reason) \/ trim(body.reason) = ""
       THEN [db |-> d, resp |-> Json([error |-> <<"Resolution reason is required">>], 400)]
     ELSE IF resolved.threw
       THEN [db |-> d, resp |-> Json([error |-> resolved.message], 200)]
     ELSE [db |-> resolved.db, resp |-> Json(resolved.ret, 200)]

resolveIncidentHandler(d, request, t, rnd) ==
  LET role == getRoleFromRequest(request)
      userId == getUserIdFromRequest(request)
      body == request.body
      resolved == resolveIncident(d, request.assetId, userId, trim(body.reason), t, rnd)
  IN IF ~can(role, "resolve_incident")
       THEN Forbidden(d, <<"Forbidden: Only admins can resolve incidents">>)
     ELSE IF Truthy(body.reason) /\ ~isString(body.reason)
       THEN unhandledException(d, "TypeError")
     ELSE IF ~Truthy(body.reason) \/ trim(body.reason) = ""
       THEN [db |-> d, resp |-> Json([error |-> <<"Resolution reason is required">>], 400)]
     ELSE IF resolved.threw
       THEN [db |-> d, resp |-> Json([error |-> resolved.message], 404)]
     ELSE [db |-> resolved.db, resp |-> Json(resolved.ret, 200)]

\* parseInt(limit, 10): not a number, or the integer
parseInt10(s) ==
  CASE s = "-1" -> [nan |-> FALSE, n |-> 0 - 1]
    [] s = "0" -> [nan |-> FALSE, n |-> 0]
    [] s = "1" -> [nan |-> FALSE, n |-> 1]
    [] s = "2" -> [nan |-> FALSE, n |-> 2]
    [] s = "100" -> [nan |-> FALSE, n |-> 100]
    [] OTHER -> [nan |-> TRUE, n |-> 0]

\* getAuditLogsHandler gated by view_assets, as the asset list is
getAuditLogsHandler_ViewAssets(d, request) ==
  IF ~can(getRoleFromRequest(request), "view_assets")
    THEN Forbidden(d, <<"Forbidden: Only auditors and admins can view audit logs">>)
    ELSE [db |-> d, resp |-> Json(getAuditLogs(d), 200)]

\* getAuditLogsHandler that does not filter by userId
getAuditLogsHandler_NoUserIdFilter(d, request) ==
  LET role == getRoleFromRequest(request)
      action == request.query.action
      resourceType == request.query.resourceType
      limit == request.query.limit
      ByAction(l) == l.action = action
      ByResourceType(l) == l.resourceType = resourceType
      all == getAuditLogs(d)
      f1 == IF Truthy(action) THEN SelectSeq(all, ByAction) ELSE all
      f3 == IF Truthy(resourceType) THEN SelectSeq(f1, ByResourceType) ELSE f1
      f4 == IF Truthy(limit) THEN slice0(f3, parseInt10(limit).n) ELSE f3
  IN IF ~can(role, "view_audit")
       THEN Forbidden(d, <<"Forbidden: Only auditors and admins can view audit logs">>)
       ELSE [db |-> d, resp |-> Json(f4, 200)]

getAuditLogsHandler(d, request) ==
  LET role == getRoleFromRequest(request)
      action == request.query.action
      userId == request.query.userId
      resourceType == request.query.resourceType
      limit == request.query.limit
      ByAction(l) == l.action = action
      ByUserId(l) == l.userId = userId
      ByResourceType(l) == l.resourceType = resourceType
      all == getAuditLogs(d)
      f1 == IF Truthy(action) THEN SelectSeq(all, ByAction) ELSE all
      f2 == IF Truthy(userId) THEN SelectSeq(f1, ByUserId) ELSE f1
      f3 == IF Truthy(resourceType) THEN SelectSeq(f2, ByResourceType) ELSE f2
      f4 == IF Truthy(limit) THEN slice0(f3, parseInt10(limit).n) ELSE f3
  IN IF ~can(role, "view_audit")
       THEN Forbidden(d, <<"Forbidden: Only auditors and admins can view audit logs">>)
       ELSE [db |-> d, resp |-> Json(f4, 200)]

\* the handlers array: the request goes to the handler of its method and path
handlers(d, request, t, rnd) ==
  CASE request.kind = "GET /api/assets" -> getAssetsHandler(d, request)
    [] request.kind = "GET /api/assets/:id" -> getAssetByIdHandler(d, request)
    [] request.kind = "POST /api/scans" -> createScanHandler(d, request, t, rnd)
    [] request.kind = "POST /api/incidents/:assetId/resolve" ->
         resolveIncidentHandler(d, request, t, rnd)
    [] request.kind = "GET /api/audit" -> getAuditLogsHandler(d, request)

(* ------------------------------- utils ---------------------------------- *)

\* the characters and the strings that occur, in the order localeCompare gives them
CollationOfChars == <<"1", "2", "C", "P", "R">>

CollationOfStrings ==
  <<"active", "anomaly", "missing", "resolved", "Site Alpha", "Site Bravo", "Site Charlie">>

IndexIn(seq, x) == CHOOSE i \in 1..Len(seq) : seq[i] = x

Sign(n) == IF n < 0 THEN 0 - 1 ELSE IF n > 0 THEN 1 ELSE 0

\* a.localeCompare(b) of two strings held whole
localeCompare(a, b) == Sign(IndexIn(CollationOfStrings, a) - IndexIn(CollationOfStrings, b))

\* a.localeCompare(b) of two strings held as sequences of characters
RECURSIVE localeCompareChars(_, _)
localeCompareChars(a, b) ==
  IF a = <<>> /\ b = <<>> THEN 0
  ELSE IF a = <<>> THEN 0 - 1
  ELSE IF b = <<>> THEN 1
  ELSE IF Head(a) # Head(b)
    THEN Sign(IndexIn(CollationOfChars, Head(a)) - IndexIn(CollationOfChars, Head(b)))
  ELSE localeCompareChars(Tail(a), Tail(b))

SEVERITY_WEIGHT == [critical |-> 5, high |-> 4, medium |-> 3, low |-> 2, info |-> 1]

\* most severe first
compareSeverity(a, b) == SEVERITY_WEIGHT[b] - SEVERITY_WEIGHT[a]

compareTimestamps(a, b) == getTime(a) - getTime(b)

\* most recent first
compareTimestampsDesc(a, b) == 0 - compareTimestamps(a, b)

\* the comparator that sortAssets hands to Array.prototype.sort
compareAssets(a, b, sort) ==
  LET multiplier == IF sort.direction = "asc" THEN 1 ELSE 0 - 1
  IN CASE sort.field = "name" -> multiplier * localeCompareChars(a.name, b.name)
       [] sort.field = "site" -> multiplier * localeCompare(a.site, b.site)
       [] sort.field = "status" -> multiplier * localeCompare(a.status, b.status)
       [] sort.field = "severity" -> multiplier * compareSeverity(a.severity, b.severity)
       [] sort.field = "lastSeenAt" ->
            multiplier * compareTimestampsDesc(a.lastSeenAt, b.lastSeenAt)
       [] OTHER -> 0

\* x put into the sorted sequence behind everything the comparator does not put behind it
RECURSIVE insertSorted(_, _, _)
insertSorted(x, sorted, sort) ==
  IF sorted = <<>> THEN <<x>>
  ELSE IF compareAssets(Head(sorted), x, sort) <= 0
    THEN <<Head(sorted)>> \o insertSorted(x, Tail(sorted), sort)
  ELSE <<x>> \o sorted

\* Array.prototype.sort with the comparator, which is stable
RECURSIVE stableSort(_, _)
stableSort(array, sort) ==
  IF array = <<>> THEN <<>>
  ELSE LET n == Len(array)
       IN insertSorted(array[n], stableSort(SubSeq(array, 1, n - 1), sort), sort)

\* sortAssets(assets, sort): the argument array after the call and the array returned
sortAssets(array, sort) ==
  LET sorted == slice0(array, Len(array))
  IN [assets |-> array, ret |-> stableSort(sorted, sort)]

(* ------------------------------- client --------------------------------- *)

\* the query string listAuditLogs builds: a parameter is set when its value is truthy
auditSearchParams(params) ==
  [action |-> IF Truthy(params.action) THEN params.action ELSE Null,
   userId |-> IF Truthy(params.userId) THEN params.userId ELSE Null,
   resourceType |-> IF Truthy(params.resourceType) THEN params.resourceType ELSE Null,
   limit |-> IF params.limit.given /\ params.limit.n # 0
               THEN ToString(params.limit.n) ELSE Null]

\* a call that threw an Error with that message
Thrown(message) == [status |-> 0 - 1, body |-> message]

\* apiFetch: the parsed body of an ok response, an Error with the body's message otherwise
apiFetch(response) ==
  IF response.status \in 200..299 THEN [status |-> 0, body |-> response.body]
  ELSE Thrown(response.body.error)

\* client.listAuditLogs(params) with the configured role: the store after it and its result
listAuditLogs(d, role, params) ==
  LET request == [kind |-> "GET /api/audit", role |-> role, query |-> auditSearchParams(params)]
      out == handlers(d, request, 0, Null)
  IN [db |-> out.db, resp |-> apiFetch(out.resp)]

\* let config = {role: 'operator', userId: 'user-001'}
DefaultClientConfig == [role |-> "operator", userId |-> "user-001"]

\* config = {...config, ...newConfig}; a key that newConfig lacks is Null here
setClientConfig(cfg, newConfig) ==
  [role |-> IF newConfig.role # Null THEN newConfig.role ELSE cfg.role,
   userId |-> IF newConfig.userId # Null THEN newConfig.userId ELSE cfg.userId]

\* the two headers that carry the configuration
buildHeaders(cfg) == [role |-> cfg.role, userId |-> cfg.userId]

\* the request with the headers built from the configuration that holds on its arrival
fetchRequest_HeadersOnArrival(call, headers, cfg) ==
  [kind |-> call.kind, role |-> buildHeaders(cfg).role, userId |-> buildHeaders(cfg).userId,
   assetId |-> call.assetId, body |-> call.body]

\* fetch(url, {...options, headers}): the request that reaches the handler carries the
\* headers that apiFetch built when it was called
fetchRequest(call, headers, cfg) ==
  [kind |-> call.kind, role |-> headers.role, userId |-> headers.userId,
   assetId |-> call.assetId, body |-> call.body]

\* resolveIncident(assetId, input): the call handed to apiFetch
resolveIncidentCall(assetId, input) ==
  [kind |-> "POST /api/incidents/:assetId/resolve", assetId |-> assetId,
   body |-> [reason |-> input.reason]]

\* the policy action that a handler checks before it reads the body of the request
requiredAction(kind) ==
  CASE kind = "POST /api/scans" -> "create_scan"
    [] kind = "POST /api/incidents/:assetId/resolve" -> "resolve_incident"

(* ------------------------------- inputs --------------------------------- *)

\* the role header: the three roles, absent, and a value that is no role
RoleHeaders == Roles \cup {Null, "superuser"}

UserIdHeaders == {Null, "admin-001"}

AssetIdParams == {"asset-1", "asset-2", "asset-404"}

\* the query strings of GET /api/assets that are sent
AssetQueries ==
  {[site |-> Null, status |-> Null, severity |-> Null, search |-> <<>>],
   [site |-> "Site Alpha", status |-> Null, severity |-> Null, search |-> <<>>],
   [site |-> Null, status |-> "missing", severity |-> "high", search |-> <<>>],
   [site |-> Null, status |-> Null, severity |-> Null, search |-> <<"p">>],
   [site |-> "Site Alpha", status |-> "missing", severity |-> "high", search |-> <<"r", "1">>],
   [site |-> "Site Alpha", status |-> "anomaly", severity |-> Null, search |-> <<>>],
   [site |-> Null, status |-> "", severity |-> Null, search |-> <<"C">>]}

GetAssetsRequests ==
  [kind : {"GET /api/assets"}, role : RoleHeaders, query : AssetQueries]

GetAssetByIdRequests ==
  [kind : {"GET /api/assets/:id"}, role : RoleHeaders, id : AssetIdParams]

ScanBodies ==
  {[assetId |-> "asset-1", site |-> "Site Bravo", readerId |-> "READER-003"],
   [assetId |-> "asset-404", site |-> "Site Bravo", readerId |-> "READER-003"],
   [assetId |-> Null, site |-> "Site Bravo", readerId |-> "READER-003"],
   [assetId |-> "asset-1", site |-> "", readerId |-> "READER-003"],
   [assetId |-> "asset-1", site |-> "Site Bravo", readerId |-> Null],
   [assetId |-> "asset-404", site |-> Null, readerId |-> "READER-003"]}

CreateScanRequests ==
  [kind : {"POST /api/scans"}, role : RoleHeaders, body : ScanBodies]

\* resolve requests of an admin whose reason field holds a number
MalformedResolveRequests ==
  [kind : {"POST /api/incidents/:assetId/resolve"}, role : {"admin"},
   userId : UserIdHeaders, assetId : AssetIdParams, body : [reason : {Number5}]]

Reasons == {Null, "", "   ", "  Test resolution "}

\* every role header with the actor header set; without the actor header, as admin
ResolveIncidentRequests ==
  {r \in [kind : {"POST /api/incidents/:assetId/resolve"}, role : RoleHeaders,
          userId : UserIdHeaders, assetId : AssetIdParams, body : [reason : Reasons]] :
     r.userId = Null => r.role = "admin"}

\* the query strings of GET /api/audit that are sent
AuditQueries ==
  {[action |-> Null, userId |-> Null, resourceType |-> Null, limit |-> Null],
   [action |-> "incident.resolve", userId |-> Null, resourceType |-> Null, limit |-> Null],
   [action |-> Null, userId |-> "admin-001", resourceType |-> "incident", limit |-> Null],
   [action |-> Null, userId |-> Null, resourceType |-> Null, limit |-> "1"]}

GetAuditLogsRequests ==
  [kind : {"GET /api/audit"}, role : RoleHeaders, query : AuditQueries]

\* the scans handed to db.createScan directly: any instant, also of an unknown asset
DbScanTimes == {1, 2, 3}

DbScans ==
  [assetId : {"asset-1", "asset-404"}, site : {"Site Alpha"}, readerId : {"READER-001"},
   scannedAt : {toISOString(t) : t \in DbScanTimes}]

\* the statuses a caller assigns to an asset it got from the store
CallerStatuses == {"active", "resolved"}

\* the bodies posted to /api/incidents
CreateIncidentBodies ==
  {[assetId |-> "asset-1", severity |-> "high", description |-> "Tamper alert triggered"],
   [assetId |-> "asset-404", severity |-> "critical",
    description |-> "Asset signal interference detected"]}

CreateIncidentRequests ==
  [kind : {"POST /api/incidents"}, role : RoleHeaders, body : CreateIncidentBodies]

\* the request matches the method and path of one of the handlers
handled(request) ==
  request.kind \in {"GET /api/assets", "GET /api/assets/:id", "POST /api/scans",
                    "POST /api/incidents/:assetId/resolve", "GET /api/audit"}

\* what a request that no handler matches gets: the mock lets it pass (onUnhandledRequest:
\* 'bypass') to whatever serves the page, which has no such route (404), or to nothing
\* (status 0: the fetch fails)
PassthroughResponses == {[status |-> 404, body |-> Null], [status |-> 0, body |-> Null]}

\* the params of client.listAuditLogs: limit is an optional number
AuditLimits ==
  {[given |-> FALSE, n |-> 0]} \cup [given : {TRUE}, n : {0 - 1, 0, 1, 2, 100}]

ListAuditLogsParams ==
  [action : {Null, "incident.resolve"}, userId : {Null}, resourceType : {Null},
   limit : AuditLimits]

\* the suffixes Math.random() yields where ids are compared: two draws can be equal
RandomDraws == {"k3x9q2a", "p7m2w4z"}

AssetSortFields == {"name", "lastSeenAt", "severity", "site", "status"}

SortDirections == {"asc", "desc"}

AssetSorts == [field : AssetSortFields, direction : SortDirections]

\* the assets that the lists to sort are made of: the two seeded ones and a third that
\* shares its site with the first
SortPool ==
  {SeedAssetObj["A1"], SeedAssetObj["A2"],
   [id |-> "asset-3", tagId |-> <<"R", "3">>, name |-> <<"R", "1">>,
    site |-> "Site Alpha", status |-> "active", severity |-> "critical",
    lastSeenAt |-> toISOString(3), createdAt |-> toISOString(0)]}

\* the lists handed to sortAssets: every list of at most MaxSortLen of the assets
SortInputs == UNION {[1..n -> SortPool] : n \in 0..MaxSortLen}

\* the calls of the client, each in a slot of its own
Slots == 1..MaxFlight

\* a slot whose call has not been made, and a generator run that has not begun
Free == [pc |-> "free"]

NotStarted == [pc |-> "not started"]

Runs == {1, 2}

\* what the application passes to setClientConfig
NewConfigs ==
  {[role |-> "admin", userId |-> "admin-001"],
   [role |-> Null, userId |-> "admin-002"],
   [role |-> "operator", userId |-> Null]}

\* the resolutions that the client asks for while others are in flight
FlightAssetIds == {"asset-1"}

ResolveIncidentInputs == {[reason |-> "  Test resolution "], [reason |-> "Duplicate alarm"]}

\* the options that generateSeedData is called with
SeedOptionSets ==
  [seed : {12345, 42}, assetCount : {MaxSeedCount}, scansPerAsset : {2},
   incidentProbability : {[num |-> 3, den |-> 10], [num |-> 1, den |-> 1]},
   auditLogCount : {MaxSeedCount}]

(* ------------------------------- actions -------------------------------- *)

\* no call is being answered: the caller has taken the last result
Idle == [kind |-> "idle"]

Returned(v) == [status |-> 0, body |-> v]

Store(d) ==
  /\ assetObj' = d.assetObj
  /\ incidentObj' = d.incidentObj
  /\ assets' = d.assets
  /\ incidents' = d.incidents
  /\ scans' = d.scans
  /\ auditLogs' = d.auditLogs

\* the outcome of a call becomes the state, while at most maxScans scans and maxAudit audit
\* entries have been added to the seed's
RespondWithin(request, out, maxScans, maxAudit) ==
  /\ op = Idle
  /\ Len(out.db.scans) <= Len(SeedScans) + maxScans
  /\ Len(out.db.auditLogs) <= Len(SeedAuditLogs) + maxAudit
  /\ Store(out.db)
  /\ op' = request
  /\ resp' = out.resp
  /\ UNCHANGED <<now, config, flight, gen>>

\* the handler's outcome becomes the state, within the bounds on the collections
Respond(request, out) == RespondWithin(request, out, MaxScans, MaxAudit)

GetAssets ==
  \E request \in GetAssetsRequests : Respond(request, getAssetsHandler(db, request))

GetAssetById ==
  \E request \in GetAssetByIdRequests : Respond(request, getAssetByIdHandler(db, request))

CreateScan ==
  \E request \in CreateScanRequests, rnd \in RandomSuffixes :
    Respond(request, createScanHandler(db, request, now, rnd))

ResolveIncident ==
  \E request \in ResolveIncidentRequests, rnd \in RandomSuffixes :
    Respond(request, resolveIncidentHandler(db, request, now, rnd))

GetAuditLogs ==
  \E request \in GetAuditLogsRequests : Respond(request, getAuditLogsHandler(db, request))

\* the UI asks the policy directly
Can ==
  \E role \in Roles, action \in PermissionActions :
    /\ op = Idle
    /\ op' = [kind |-> "can", role |-> role, action |-> action]
    /\ resp' = Returned(can(role, action))
    /\ UNCHANGED <<assetObj, incidentObj, assets, incidents, scans, auditLogs, now, config, flight, gen>>

GetRolePermissions ==
  \E role \in Roles :
    /\ op = Idle
    /\ op' = [kind |-> "getRolePermissions", role |-> role]
    /\ resp' = Returned(getRolePermissions(role))
    /\ UNCHANGED <<assetObj, incidentObj, assets, incidents, scans, auditLogs, now, config, flight, gen>>

\* db.createScan called directly
DbCreateScan ==
  \E scan \in DbScans, rnd \in RandomSuffixes :
    LET out == createScan(db, scan, now, rnd)
    IN Respond([kind |-> "db.createScan", scan |-> scan], [db |-> out.db, resp |-> Returned(out.ret)])

\* db.createAuditLog called directly, as the tests do
DbCreateAuditLog ==
  \E rnd \in RandomSuffixes :
    LET log == [userId |-> "test-user", action |-> "test.action", resourceType |-> "test",
                resourceId |-> "test-123", details |-> NoDetails,
                timestamp |-> toISOString(now)]
        out == createAuditLog(db, log, now, rnd)
    IN Respond([kind |-> "db.createAuditLog", log |-> log],
               [db |-> out.db, resp |-> Returned(out.ret)])

\* a caller in the same process (a test, a handler) assigns a status to the object that
\* db.getAssetById handed it: that object is the one the store's array holds
CallerWritesAsset ==
  \E id \in AssetIdParams, status \in CallerStatuses :
    LET asset == getAssetById(db, id)
    IN /\ op = Idle
       /\ asset # Null
       /\ assetObj' = [assetObj EXCEPT ![asset].status = status]
       /\ op' = [kind |-> "caller.write", id |-> id, status |-> status]
       /\ resp' = Returned(Null)
       /\ UNCHANGED <<incidentObj, assets, incidents, scans, auditLogs, now, config, flight, gen>>

\* a caller removes the first element of the array that db.getAssets handed it: the array is
\* a copy of the store's ([...this.assets]); resp is the caller's array afterwards
CallerChangesArray ==
  /\ op = Idle
  /\ op' = [kind |-> "caller.shift"]
  /\ resp' = Returned(Tail(getAssets(db)))
  /\ UNCHANGED <<assetObj, incidentObj, assets, incidents, scans, auditLogs, now, config, flight, gen>>

\* client.createIncident: POST /api/incidents, for which the handlers array has no handler
CreateIncident ==
  \E request \in CreateIncidentRequests, passed \in PassthroughResponses :
    /\ ~handled(request)
    /\ Respond(request, [db |-> db, resp |-> passed])

\* client.listAuditLogs called with the role the client is configured with
ListAuditLogs ==
  \E role \in Roles, params \in ListAuditLogsParams :
    Respond([kind |-> "listAuditLogs", role |-> role, params |-> params],
            listAuditLogs(db, role, params))

\* create scan with any of the random suffixes, with room for one scan more than MaxScans so
\* that two can be created within one millisecond
CreateScanDrawing ==
  \E request \in CreateScanRequests, rnd \in RandomDraws :
    RespondWithin(request, createScanHandler(db, request, now, rnd), MaxScans + 1, MaxAudit + 1)

\* db.createAuditLog with any of the random suffixes, called twice in a row by the test
\* 'audit logs have unique IDs'
CreateAuditLogDrawing ==
  \E rnd \in RandomDraws, resourceId \in {"test-123", "test-456"} :
    LET log == [userId |-> "test-user", action |-> "test.action", resourceType |-> "test",
                resourceId |-> resourceId, details |-> NoDetails,
                timestamp |-> toISOString(now)]
        out == createAuditLog(db, log, now, rnd)
    IN RespondWithin([kind |-> "db.createAuditLog", log |-> log],
                     [db |-> out.db, resp |-> Returned(out.ret)], MaxScans + 1, MaxAudit + 1)

ResolveIncidentMalformed ==
  \E request \in MalformedResolveRequests, rnd \in RandomSuffixes :
    Respond(request, resolveIncidentHandler(db, request, now, rnd))

\* a caller sorts a list of assets
SortAssets ==
  \E input \in SortInputs, sort \in AssetSorts :
    LET out == sortAssets(input, sort)
    IN /\ op = Idle
       /\ op' = [kind |-> "sortAssets", before |-> input, after |-> out.assets, sort |-> sort]
       /\ resp' = Returned(out.ret)
       /\ UNCHANGED <<assetObj, incidentObj, assets, incidents, scans, auditLogs, now, config, flight, gen>>

\* the application changes the client configuration
SetClientConfig ==
  \E newConfig \in NewConfigs :
    /\ config' = setClientConfig(config, newConfig)
    /\ config' # config
    /\ UNCHANGED <<assetObj, incidentObj, assets, incidents, scans, auditLogs, now, op, resp,
                   flight, gen>>

\* the client calls resolveIncident: apiFetch builds the headers, fetch sends the request
CallResolveIncident ==
  \E s \in Slots, assetId \in FlightAssetIds, input \in ResolveIncidentInputs :
    /\ flight[s] = Free
    /\ \A earlier \in 1..(s - 1) : flight[earlier] # Free
    /\ flight' = [flight EXCEPT ![s] =
                    [pc |-> "sent", call |-> resolveIncidentCall(assetId, input),
                     headers |-> buildHeaders(config), calledWith |-> config,
                     openAtCall |-> Len(unresolvedIncidentsOf(db, assetId))]]
    /\ UNCHANGED <<assetObj, incidentObj, assets, incidents, scans, auditLogs, now, op, resp,
                   config, gen>>

\* the handler starts on a request: it checks the role and either answers 403 or awaits the
\* body of the request
HandlerStart ==
  \E s \in Slots, rnd \in RandomSuffixes :
    /\ flight[s].pc = "sent"
    /\ LET request == fetchRequest(flight[s].call, flight[s].headers, config)
       IN flight' = [flight EXCEPT ![s] =
            IF ~can(getRoleFromRequest(request), requiredAction(request.kind))
              THEN [pc |-> "done", request |-> request, calledWith |-> flight[s].calledWith,
                    openAtCall |-> flight[s].openAtCall,
                    resp |-> handlers(db, request, now, rnd).resp]
              ELSE [pc |-> "awaiting body", request |-> request,
                    calledWith |-> flight[s].calledWith, openAtCall |-> flight[s].openAtCall]]
    /\ UNCHANGED <<assetObj, incidentObj, assets, incidents, scans, auditLogs, now, op, resp,
                   config, gen>>

\* the body has arrived: the handler validates it, calls the store and answers, in one go
HandlerFinish ==
  \E s \in Slots, rnd \in RandomSuffixes :
    /\ flight[s].pc = "awaiting body"
    /\ LET out == handlers(db, flight[s].request, now, rnd)
       IN /\ Len(out.db.scans) <= Len(SeedScans) + MaxScans
          /\ Len(out.db.auditLogs) <= Len(SeedAuditLogs) + MaxAudit + 1
          /\ Store(out.db)
          /\ flight' = [flight EXCEPT ![s] =
                          [pc |-> "done", request |-> flight[s].request,
                           calledWith |-> flight[s].calledWith,
                           openAtCall |-> flight[s].openAtCall, resp |-> out.resp]]
    /\ UNCHANGED <<now, op, resp, config, gen>>

\* a call of generateSeedData begins; calledAt keeps what the clock showed
GenerateSeedData ==
  \E r \in Runs, options \in SeedOptionSets :
    /\ op = Idle
    /\ gen[r] = NotStarted
    /\ gen' = [gen EXCEPT ![r] = beginSeedData(options) @@ [calledAt |-> now]]
    /\ UNCHANGED <<assetObj, incidentObj, assets, incidents, scans, auditLogs, now, op, resp,
                   config, flight>>

\* a call makes its next asset
GenerateAsset ==
  \E r \in Runs :
    /\ gen[r].pc = "running"
    /\ gen[r].i < gen[r].opts.assetCount
    /\ gen' = [gen EXCEPT ![r] = assetPass(gen[r])]
    /\ UNCHANGED <<assetObj, incidentObj, assets, incidents, scans, auditLogs, now, op, resp,
                   config, flight>>

\* a call makes its next audit entry
GenerateAuditLog ==
  \E r \in Runs :
    /\ gen[r].pc = "running"
    /\ gen[r].i = gen[r].opts.assetCount
    /\ gen[r].j < gen[r].opts.auditLogCount
    /\ gen' = [gen EXCEPT ![r] = auditLogPass(gen[r])]
    /\ UNCHANGED <<assetObj, incidentObj, assets, incidents, scans, auditLogs, now, op, resp,
                   config, flight>>

\* a call returns
ReturnSeedData ==
  \E r \in Runs :
    /\ gen[r].pc = "running"
    /\ gen[r].i = gen[r].opts.assetCount
    /\ gen[r].j = gen[r].opts.auditLogCount
    /\ gen' = [gen EXCEPT ![r] = returnSeedData(gen[r]) @@ [calledAt |-> gen[r].calledAt]]
    /\ UNCHANGED <<assetObj, incidentObj, assets, incidents, scans, auditLogs, now, op, resp,
                   config, flight>>

Reset ==
  /\ op = Idle
  /\ Store(reset(db))
  /\ op' = [kind |-> "db.reset"]
  /\ resp' = Returned(Null)
  /\ UNCHANGED <<now, config, flight, gen>>

\* db.initialize(seedData) with seed data of the caller
Initialize ==
  /\ op = Idle
  /\ Store(initialize(db, CUSTOM_SEED_DATA))
  /\ op' = [kind |-> "db.initialize"]
  /\ resp' = Returned(Null)
  /\ UNCHANGED <<now, config, flight, gen>>

\* the clock advances
Tick ==
  /\ op = Idle
  /\ now < MaxNow
  /\ now' = now + 1
  /\ UNCHANGED <<assetObj, incidentObj, assets, incidents, scans, auditLogs, op, resp, config, flight, gen>>

\* the caller takes the result of the call; the next call can be made
Return ==
  /\ op # Idle
  /\ op' = Idle
  /\ resp' = Returned(Null)
  /\ UNCHANGED <<assetObj, incidentObj, assets, incidents, scans, auditLogs, now, config, flight, gen>>

\* the module is loaded: the seed objects are built and db.initialize() has run
Init ==
  /\ assetObj = SeedAssetObj
  /\ incidentObj = SeedIncidentObj
  /\ assets = DEFAULT_SEED_DATA.assets
  /\ incidents = DEFAULT_SEED_DATA.incidents
  /\ scans = DEFAULT_SEED_DATA.scans
  /\ auditLogs = DEFAULT_SEED_DATA.auditLogs
  /\ now = NowInit
  /\ op = Idle
  /\ resp = Returned(Null)
  /\ config = DefaultClientConfig
  /\ flight = [s \in Slots |-> Free]
  /\ gen = [r \in Runs |-> NotStarted]

\* the API under requests of every role, the policy asked by the UI, the tests' direct
\* store calls
Next ==
  \/ GetAssets
  \/ GetAssetById
  \/ CreateScan
  \/ ResolveIncident
  \/ GetAuditLogs
  \/ Can
  \/ GetRolePermissions
  \/ DbCreateAuditLog
  \/ Reset
  \/ Tick
  \/ Return

Spec == Init /\ [][Next]_vars

\* scans arriving through the API and through the store
NextScan ==
  \/ CreateScan
  \/ DbCreateScan
  \/ Reset
  \/ Tick
  \/ Return

SpecScan == Init /\ [][NextScan]_vars

\* resolution on a store that was initialized with seed data of the caller
NextMulti ==
  \/ Initialize
  \/ ResolveIncident
  \/ Reset
  \/ Tick
  \/ Return

SpecMulti == Init /\ [][NextMulti]_vars

\* callers in the same process that keep what the store returned and write to it
NextCaller ==
  \/ CallerWritesAsset
  \/ CallerChangesArray
  \/ GetAssets
  \/ Reset
  \/ Return

SpecCaller == Init /\ [][NextCaller]_vars

\* the simulator: it streams scans and injects anomalies
NextSimulator ==
  \/ CreateScan
  \/ CreateIncident
  \/ Reset
  \/ Tick
  \/ Return

SpecSimulator == Init /\ [][NextSimulator]_vars

\* the audit page: the client lists the log while resolves and createAuditLog add to it
NextAudit ==
  \/ ListAuditLogs
  \/ ResolveIncident
  \/ DbCreateAuditLog
  \/ Reset
  \/ Tick
  \/ Return

SpecAudit == Init /\ [][NextAudit]_vars

\* scans and audit entries created in quick succession
NextIds ==
  \/ CreateScanDrawing
  \/ CreateAuditLogDrawing
  \/ Reset
  \/ Tick
  \/ Return

SpecIds == Init /\ [][NextIds]_vars

\* the detail view, on stores with several scans and several incidents of one asset
NextDetail ==
  \/ GetAssetById
  \/ CreateScan
  \/ DbCreateScan
  \/ Initialize
  \/ Reset
  \/ Tick
  \/ Return

SpecDetail == Init /\ [][NextDetail]_vars

\* the resolve endpoint, with bodies whose reason is not a string among the requests
NextMalformed ==
  \/ ResolveIncident
  \/ ResolveIncidentMalformed
  \/ Reset
  \/ Tick
  \/ Return

SpecMalformed == Init /\ [][NextMalformed]_vars

\* the sorting of asset lists
NextSort ==
  \/ SortAssets
  \/ Return

SpecSort == Init /\ [][NextSort]_vars

\* requests of the client in flight, the configuration changing meanwhile
NextFlight ==
  \/ SetClientConfig
  \/ CallResolveIncident
  \/ HandlerStart
  \/ HandlerFinish
  \/ Tick

SpecFlight == Init /\ [][NextFlight]_vars

\* two calls of generateSeedData, the clock advancing while they run
NextSeed ==
  \/ GenerateSeedData
  \/ GenerateAsset
  \/ GenerateAuditLog
  \/ ReturnSeedData
  \/ Tick

SpecSeed == Init /\ [][NextSeed]_vars

(* ------------------------------ properties ------------------------------ *)

\* the content of the four collections, objects read through their references
StoreView ==
  [assets |-> getAssets(db), scans |-> getScans(db),
   incidents |-> getIncidents(db), auditLogs |-> getAuditLogs(db)]

\* the rule table of the policy: the actions each role is allowed
RuleTable(role) ==
  CASE role = "admin" -> PermissionActions
    [] role = "operator" -> PermissionActions \ {"resolve_incident", "view_audit"}
    [] role = "auditor" -> PermissionActions \ {"create_scan", "resolve_incident"}

Endpoints ==
  {"GET /api/assets", "GET /api/assets/:id", "POST /api/scans",
   "POST /api/incidents/:assetId/resolve", "GET /api/audit"}

\* the policy action each endpoint is gated by
ActionOf(kind) ==
  CASE kind = "GET /api/assets" -> "view_assets"
    [] kind = "GET /api/assets/:id" -> "view_asset_detail"
    [] kind = "POST /api/scans" -> "create_scan"
    [] kind = "POST /api/incidents/:assetId/resolve" -> "resolve_incident"
    [] kind = "GET /api/audit" -> "view_audit"

Range(s) == {s[i] : i \in 1..Len(s)}

\* C1: for every role and every action, can(role, action) is what the rule table says
\* (admin everything; operator everything but resolve_incident and view_audit; auditor
\* everything but create_scan and resolve_incident), and getRolePermissions(role) lists
\* exactly the allowed actions, once each: 7 for admin, 5 for operator, 5 for auditor;
\* every answer the policy gives to a call is the table's.
C1_PolicyMatchesRuleTable ==
  /\ \A role \in Roles, action \in PermissionActions :
       can(role, action) <=> action \in RuleTable(role)
  /\ \A role \in Roles :
       /\ Range(getRolePermissions(role)) = RuleTable(role)
       /\ Len(getRolePermissions(role)) = IF role = "admin" THEN 7 ELSE 5
  /\ op.kind = "can" => (resp.body <=> op.action \in RuleTable(op.role))
  /\ op.kind = "getRolePermissions" =>
       /\ Range(resp.body) = RuleTable(op.role)
       /\ Len(resp.body) = Cardinality(RuleTable(op.role))

\* the policy was asked whether an auditor may create a scan and said no
C1_Witness ==
  /\ op.kind = "can"
  /\ op.role = "auditor"
  /\ op.action = "create_scan"
  /\ resp.body = FALSE

\* C2: with one of the three roles, an endpoint answers 403 exactly when the role is denied
\* the endpoint's action: never for the two asset reads, for auditor on POST scans, for
\* operator and auditor on resolve, for operator on GET audit; GET audit answers 200 to
\* admin and auditor.
C2_ForbiddenExactlyWhenDenied ==
  (op.kind \in Endpoints /\ op.role \in Roles) =>
    /\ resp.status = 403 <=>
         \/ op.kind = "POST /api/scans" /\ op.role = "auditor"
         \/ op.kind = "POST /api/incidents/:assetId/resolve" /\ op.role \in {"operator", "auditor"}
         \/ op.kind = "GET /api/audit" /\ op.role = "operator"
    /\ (op.kind = "GET /api/audit" /\ op.role \in {"admin", "auditor"}) => resp.status = 200

\* an auditor has read the audit log
C2_Witness ==
  /\ op.kind = "GET /api/audit"
  /\ op.role = "auditor"
  /\ resp.status = 200
  /\ resp.body = auditLogs

\* the role a request is handled with: its role header, operator when that is no role
EffectiveRole(header) == IF header \in Roles THEN header ELSE "operator"

\* C3: a request whose role is denied the endpoint's action is answered 403 whatever its
\* parameters and body are, and the four collections are after it what they were before.
C3_DeniedBeforeAnythingElse ==
  [][(op = Idle /\ op'.kind \in Endpoints
        /\ ActionOf(op'.kind) \notin RuleTable(EffectiveRole(op'.role)))
       => (resp'.status = 403 /\ StoreView' = StoreView
             /\ assetObj' = assetObj /\ incidentObj' = incidentObj)]_vars

\* an operator asked to resolve, without a reason, for an asset that does not exist: 403
C3_Witness ==
  /\ op.kind = "POST /api/incidents/:assetId/resolve"
  /\ op.role = "operator"
  /\ op.body.reason = ""
  /\ op.assetId = "asset-404"
  /\ resp.status = 403

ResolveKind == "POST /api/incidents/:assetId/resolve"

\* the actor a request is attributed to: its actor header, the placeholder without one
ActorOf(request) == IF request.userId = Null THEN "user-001" ELSE request.userId

\* the request is one that resolve accepts: role admin and a reason that is not blank
Resolvable(request) ==
  /\ request.kind = ResolveKind
  /\ EffectiveRole(request.role) = "admin"
  /\ request.body.reason \notin {Null, "", "   "}

\* the incident objects in the store that belong to the asset and are not resolved
OpenIncidentsOf(assetId) ==
  {r \in Range(incidents) :
     incidentObj[r].assetId = assetId /\ incidentObj[r].resolvedAt = Null}

\* s without its k-th element
RemoveAt(s, k) == SubSeq(s, 1, k - 1) \o SubSeq(s, k + 1, Len(s))

\* C4: a resolve by an admin with a non-blank reason for an asset that has an unresolved
\* incident is answered 200; the unresolved incident of the asset that was created last gets
\* resolvedAt, resolvedBy = the actor (user-001 without actor header) and resolutionReason =
\* the trimmed reason; the asset's status becomes resolved; the audit log gains exactly one
\* entry: incident.resolve / incident / the incident's id / the actor / {assetId,
\* incidentId, resolutionReason}.
C4_ResolveNewestOpenIncident ==
  [][(op = Idle /\ Resolvable(op') /\ OpenIncidentsOf(op'.assetId) # {})
       => /\ resp'.status = 200
          /\ \E r \in OpenIncidentsOf(op'.assetId) :
               /\ \A q \in OpenIncidentsOf(op'.assetId) :
                    getTime(incidentObj[q].createdAt) <= getTime(incidentObj[r].createdAt)
               /\ incidentObj'[r].resolvedAt # Null
               /\ incidentObj'[r].resolvedBy = ActorOf(op')
               /\ incidentObj'[r].resolutionReason = "Test resolution"
               /\ \A a \in Range(assets) :
                    assetObj[a].id = op'.assetId => assetObj'[a].status = "resolved"
               /\ Len(auditLogs') = Len(auditLogs) + 1
               /\ \E k \in 1..Len(auditLogs') :
                    /\ RemoveAt(auditLogs', k) = auditLogs
                    /\ auditLogs'[k].action = "incident.resolve"
                    /\ auditLogs'[k].resourceType = "incident"
                    /\ auditLogs'[k].resourceId = incidentObj[r].id
                    /\ auditLogs'[k].userId = ActorOf(op')
                    /\ auditLogs'[k].details =
                         [assetId |-> op'.assetId, incidentId |-> incidentObj[r].id,
                          resolutionReason |-> "Test resolution"]]_vars

\* asset-1 had two open incidents; a resolve without actor header has resolved the newer
\* one as user-001 and the older one is still open
C4_Witness ==
  /\ op.kind = ResolveKind
  /\ op.userId = Null
  /\ resp.status = 200
  /\ incidents = CUSTOM_SEED_DATA.incidents
  /\ incidentObj["X2"].resolvedBy = "user-001"
  /\ incidentObj["X1"].resolvedAt = Null
  /\ assetObj["A1"].status = "resolved"
  /\ auditLogs[1].resourceId = "incident-x2"

\* the audit entries added since seeding that record the resolution of the incident
ResolveEntriesFor(incidentId) ==
  {k \in 1..Len(auditLogs) :
     /\ auditLogs[k].id[3] # "seed"
     /\ auditLogs[k].action = "incident.resolve"
     /\ auditLogs[k].resourceId = incidentId}

\* C5: a resolve that resolve accepts (admin, non-blank reason), for an asset without an
\* unresolved incident, is answered 404 and changes nothing; so after the only open incident
\* of an asset was resolved the next resolve is answered 404, and no incident ever has a
\* second audit entry.
C5_NoOpenIncidentNotFound ==
  /\ [](\A r \in IncidentRefs : Cardinality(ResolveEntriesFor(incidentObj[r].id)) <= 1)
  /\ [][(op = Idle /\ Resolvable(op') /\ OpenIncidentsOf(op'.assetId) = {})
          => (resp'.status = 404 /\ StoreView' = StoreView
                /\ assetObj' = assetObj /\ incidentObj' = incidentObj)]_vars

\* asset-1's only open incident was resolved by a request, its audit entry heads the log,
\* and a further resolve for asset-1 has been answered 404
C5_Witness ==
  /\ op.kind = ResolveKind
  /\ op.assetId = "asset-1"
  /\ resp.status = 404
  /\ incidents = DEFAULT_SEED_DATA.incidents
  /\ incidentObj["I1"].resolvedBy = "admin-001"
  /\ Cardinality(ResolveEntriesFor("incident-1")) = 1
  /\ Len(auditLogs) = Len(SeedAuditLogs) + 1

\* C6: apart from reset and initialize, which reload the log, a step leaves the audit log as
\* it is or puts one entry in front of it; createAuditLog and a successful resolve put the
\* entry they create in front.
C6_AuditAppendOnlyAtHead ==
  [][/\ (op = Idle /\ op'.kind \notin {"db.reset", "db.initialize"})
          => (auditLogs' = auditLogs \/ Tail(auditLogs') = auditLogs)
     /\ (op = Idle /\ op'.kind = "db.createAuditLog")
          => /\ auditLogs' = <<resp'.body>> \o auditLogs
             /\ resp'.body.action = op'.log.action
             /\ resp'.body.resourceId = op'.log.resourceId
     /\ (op = Idle /\ op'.kind = ResolveKind /\ resp'.status = 200)
          => /\ Tail(auditLogs') = auditLogs
             /\ auditLogs'[1].action = "incident.resolve"
             /\ auditLogs'[1].resourceId = resp'.body.id]_vars

\* createAuditLog has put its entry in front of the seed entries
C6_Witness ==
  /\ op.kind = "db.createAuditLog"
  /\ auditLogs = <<resp.body>> \o SeedAuditLogs
  /\ resp.body.action = "test.action"

\* C7: in any step no asset's lastSeenAt moves backwards; a createScan for an asset, through
\* the API or directly, sets the asset's lastSeenAt to the scan's scannedAt when that is
\* strictly later, and leaves it when it is earlier or equal.
C7_LastSeenAtMonotonic ==
  [][/\ \A a \in AssetRefs :
          getTime(assetObj'[a].lastSeenAt) >= getTime(assetObj[a].lastSeenAt)
     /\ (op = Idle /\ (op'.kind = "db.createScan"
                         \/ (op'.kind = "POST /api/scans" /\ resp'.status = 201)))
          => \A a \in Range(assets) :
               assetObj[a].id = resp'.body.assetId =>
                 assetObj'[a].lastSeenAt =
                   IF getTime(resp'.body.scannedAt) > getTime(assetObj[a].lastSeenAt)
                     THEN resp'.body.scannedAt
                     ELSE assetObj[a].lastSeenAt]_vars

\* a scan of asset-1 older than its lastSeenAt was stored and lastSeenAt is still later
C7_Witness ==
  /\ op.kind = "db.createScan"
  /\ op.scan.assetId = "asset-1"
  /\ scans[Len(scans)] = resp.body
  /\ getTime(resp.body.scannedAt) < getTime(assetObj["A1"].lastSeenAt)

\* the four collections as the seed generator built them
SeedView ==
  [assets |-> [i \in 1..Len(DEFAULT_SEED_DATA.assets) |->
                 SeedAssetObj[DEFAULT_SEED_DATA.assets[i]]],
   scans |-> SeedScans,
   incidents |-> [i \in 1..Len(DEFAULT_SEED_DATA.incidents) |->
                    SeedIncidentObj[DEFAULT_SEED_DATA.incidents[i]]],
   auditLogs |-> SeedAuditLogs]

\* C8: after reset() the four collections have the content the seed generator produced,
\* which is the content right after the first initialization.
C8_ResetRestoresSeed == op.kind = "db.reset" => StoreView = SeedView

IncidentResolved(inc) ==
  inc.resolvedAt # Null /\ inc.resolvedBy # Null /\ inc.resolutionReason # Null

IncidentOpen(inc) ==
  inc.resolvedAt = Null /\ inc.resolvedBy = Null /\ inc.resolutionReason = Null

\* C9: every incident has resolvedAt, resolvedBy and resolutionReason all absent or all
\* present, and an incident that has them keeps all three as they are in every step.
C9_ResolutionFieldsTogetherAndFinal ==
  /\ [](\A r \in IncidentRefs : IncidentOpen(incidentObj[r]) \/ IncidentResolved(incidentObj[r]))
  /\ [][\A r \in IncidentRefs :
          incidentObj[r].resolvedAt # Null =>
            /\ incidentObj'[r].resolvedAt = incidentObj[r].resolvedAt
            /\ incidentObj'[r].resolvedBy = incidentObj[r].resolvedBy
            /\ incidentObj'[r].resolutionReason = incidentObj[r].resolutionReason]_vars

\* incident-1 was resolved by a request, and a later scan of its asset was stored
C9_Witness ==
  /\ op.kind = "POST /api/scans"
  /\ op.body.assetId = "asset-1"
  /\ resp.status = 201
  /\ incidentObj["I1"].resolvedBy = "admin-001"
  /\ IncidentResolved(incidentObj["I1"])

AllRequests ==
  GetAssetsRequests \cup GetAssetByIdRequests \cup CreateScanRequests
    \cup ResolveIncidentRequests \cup GetAuditLogsRequests

\* C10: whenever a request can arrive, a request whose role header is absent or no role gets
\* the response and leaves the store that the same request with role operator does; such a
\* request to resolve or to read the audit log is answered 403.
C10_UnknownRoleIsOperator ==
  /\ op = Idle =>
       \A request \in AllRequests : \A rnd \in RandomSuffixes :
         request.role \notin Roles =>
           LET mine == handlers(db, request, now, rnd)
               operators == handlers(db, [request EXCEPT !.role = "operator"], now, rnd)
           IN /\ mine.resp.status = operators.resp.status
              /\ mine.resp = operators.resp
              /\ mine.db = operators.db
  /\ (op.kind \in {ResolveKind, "GET /api/audit"} /\ op.role \notin Roles)
       => resp.status = 403

\* a resolve with a role header that is no role, a reason and an asset with an open
\* incident has been answered 403 and the incident is open
C10_Witness ==
  /\ op.kind = ResolveKind
  /\ op.role = "superuser"
  /\ op.assetId = "asset-1"
  /\ op.body.reason = "  Test resolution "
  /\ resp.status = 403
  /\ IncidentOpen(incidentObj["I1"])

\* the ids of the assets in the store
AssetIds == {assetObj[a].id : a \in Range(assets)}

\* the body of a create-scan request has all of assetId, site and readerId
ScanBodyComplete(body) ==
  body.assetId \notin {Null, ""} /\ body.site \notin {Null, ""} /\ body.readerId \notin {Null, ""}

C12_InvalidInputBeforeLookup ==
  [][/\ (op = Idle /\ op'.kind = "POST /api/scans"
            /\ "create_scan" \in RuleTable(EffectiveRole(op'.role))
            /\ ~ScanBodyComplete(op'.body))
          => (resp'.status = 400 /\ StoreView' = StoreView
                /\ assetObj' = assetObj /\ incidentObj' = incidentObj)
     /\ (op = Idle /\ op'.kind = ResolveKind
            /\ "resolve_incident" \in RuleTable(EffectiveRole(op'.role))
            /\ op'.body.reason \in {Null, "", "   "})
          => (resp'.status = 400 /\ StoreView' = StoreView
                /\ assetObj' = assetObj /\ incidentObj' = incidentObj)]_vars

\* an operator's create scan without site, for an asset that does not exist, has been
\* answered 400
C12_Witness ==
  /\ op.kind = "POST /api/scans"
  /\ op.role = "operator"
  /\ op.body.assetId = "asset-404"
  /\ op.body.site = Null
  /\ resp.status = 400

\* no entry of the sequence of audit entries is older than the entry after it
NewestFirst(logs) ==
  \A i \in 1..(Len(logs) - 1) : getTime(logs[i].timestamp) >= getTime(logs[i + 1].timestamp)

C14_ReturnedValuesAreCopies ==
  [][(op = Idle /\ op'.kind \in {"caller.write", "caller.shift"})
       => StoreView' = StoreView]_vars

\* C15: a request with role auditor, to any endpoint, leaves the assets, scans, incidents
\* and audit entries as they were.
C15_AuditorChangesNothing ==
  [][(op = Idle /\ op'.kind \in Endpoints /\ op'.role = "auditor")
       => (StoreView' = StoreView /\ assetObj' = assetObj /\ incidentObj' = incidentObj
             /\ assets' = assets /\ incidents' = incidents)]_vars

\* an auditor has read the detail of asset-1, scans and incidents included; its incident
\* is open and the store is as seeded
C15_Witness ==
  /\ op.kind = "GET /api/assets/:id"
  /\ op.role = "auditor"
  /\ op.id = "asset-1"
  /\ resp.status = 200
  /\ Len(resp.body.incidents) = 1
  /\ resp.body.incidents[1].resolvedAt = Null
  /\ StoreView = SeedView

\* C16: POST incidents for an existing asset is answered 201 whatever the role and adds
\* exactly one incident, open and of that asset; for an assetId that is the id of no asset it
\* is answered 404 and adds nothing.
C16_CreateIncident ==
  [][(op = Idle /\ op'.kind = "POST /api/incidents")
       => IF op'.body.assetId \in AssetIds
            THEN /\ resp'.status = 201
                 /\ Len(incidents') = Len(incidents) + 1
                 /\ \E k \in 1..Len(incidents') :
                      /\ RemoveAt(incidents', k) = incidents
                      /\ incidentObj'[incidents'[k]].assetId = op'.body.assetId
                      /\ incidentObj'[incidents'[k]].resolvedAt = Null
            ELSE /\ resp'.status = 404
                 /\ StoreView' = StoreView]_vars

\* a query parameter is supplied: present and not empty
Supplied(v) == v \notin {Null, ""}

UpperChar(c) ==
  CASE c = "p" -> "P"
    [] c = "c" -> "C"
    [] c = "r" -> "R"
    [] OTHER -> c

\* term occurs in s when the case of letters is ignored
ContainsIgnoringCase(s, term) ==
  \E i \in 0..(Len(s) - Len(term)) :
    \A j \in 1..Len(term) : UpperChar(s[i + j]) = UpperChar(term[j])

\* the asset satisfies every filter the query supplies
AssetMatches(a, query) ==
  /\ Supplied(query.site) => a.site = query.site
  /\ Supplied(query.status) => a.status = query.status
  /\ Supplied(query.severity) => a.severity = query.severity
  /\ query.search # <<>> =>
       ContainsIgnoringCase(a.name, query.search) \/ ContainsIgnoringCase(a.tagId, query.search)

\* C17: GET assets is answered 200 with exactly the assets that satisfy all the supplied
\* filters (site, status, severity equal; the search term in name or tagId, case ignored), in
\* the store's order: all assets without filters, the empty array when nothing matches.
C17_AssetFiltersIntersect ==
  op.kind = "GET /api/assets" =>
    /\ resp.status = 200
    /\ LET all == getAssets(db)
           hits == {i \in 1..Len(all) : AssetMatches(all[i], op.query)}
       IN /\ Len(resp.body) = Cardinality(hits)
          /\ \A k \in 1..Len(resp.body) :
               \E i \in hits : /\ resp.body[k] = all[i]
                               /\ Cardinality({j \in hits : j < i}) = k - 1

\* assets of Site Alpha with status anomaly were asked for: asset-1 is of Site Alpha, asset-2
\* has status anomaly, and the answer is 200 with the empty array
C17_Witness ==
  /\ op.kind = "GET /api/assets"
  /\ op.query.site = "Site Alpha"
  /\ op.query.status = "anomaly"
  /\ assetObj["A1"].site = "Site Alpha"
  /\ assetObj["A2"].status = "anomaly"
  /\ resp.status = 200
  /\ resp.body = <<>>

\* the audit entry has the action, userId and resourceType the query supplies
AuditMatches(l, query) ==
  /\ Supplied(query.action) => l.action = query.action
  /\ Supplied(query.userId) => l.userId = query.userId
  /\ Supplied(query.resourceType) => l.resourceType = query.resourceType

\* the subsequence of s at the positions in hits
RECURSIVE Pick(_, _, _)
Pick(s, hits, i) ==
  IF i > Len(s) THEN <<>>
  ELSE (IF i \in hits THEN <<s[i]>> ELSE <<>>) \o Pick(s, hits, i + 1)

\* C18: GET audit without limit, by admin or auditor, is answered 200 with exactly the
\* entries whose action, userId and resourceType equal the supplied values, in the store's
\* order; without filters, with the whole log.
C18_AuditFiltersIntersect ==
  (op.kind = "GET /api/audit" /\ EffectiveRole(op.role) \in {"admin", "auditor"}
     /\ ~Supplied(op.query.limit))
    => /\ resp.status = 200
       /\ resp.body =
            Pick(auditLogs, {i \in 1..Len(auditLogs) : AuditMatches(auditLogs[i], op.query)}, 1)
       /\ (op.query = [action |-> Null, userId |-> Null, resourceType |-> Null, limit |-> Null])
            => resp.body = auditLogs

\* the log holds two entries about incidents, one of them by admin-001, and an auditor who
\* asked for the entries of admin-001 about incidents got that one
C18_Witness ==
  /\ op.kind = "GET /api/audit"
  /\ op.role = "auditor"
  /\ op.query.userId = "admin-001"
  /\ op.query.resourceType = "incident"
  /\ Cardinality({i \in 1..Len(auditLogs) : auditLogs[i].resourceType = "incident"}) = 2
  /\ resp.status = 200
  /\ Len(resp.body) = 1
  /\ resp.body[1].userId = "admin-001"

\* C19: listAuditLogs with a limit n, by admin or auditor, does not fail, and returns the
\* first n entries of the filtered log, n clamped to the range from 0 to the length of that
\* list: never more than n entries.
C19_LimitClamped ==
  (op.kind = "listAuditLogs" /\ op.role \in {"admin", "auditor"} /\ op.params.limit.given)
    => /\ resp.status # 0 - 1
       /\ LET filtered ==
                Pick(auditLogs,
                     {i \in 1..Len(auditLogs) : AuditMatches(auditLogs[i], op.params)}, 1)
              n == op.params.limit.n
              clamped == IF n < 0 THEN 0 ELSE IF n > Len(filtered) THEN Len(filtered) ELSE n
          IN resp.body = SubSeq(filtered, 1, clamped)

\* the ids of the records of a sequence are pairwise distinct
DistinctIds(records) ==
  \A i, j \in 1..Len(records) : records[i].id = records[j].id => i = j

\* C20: in every reachable state the ids within each collection are pairwise distinct, also
\* when scans or audit entries were created within the same millisecond.
C20_IdsDistinct ==
  /\ DistinctIds(getAssets(db))
  /\ DistinctIds(getIncidents(db))
  /\ DistinctIds(getScans(db))
  /\ DistinctIds(getAuditLogs(db))

\* the records of the sequence are ordered by the time in field f, latest first
DescendingBy(records, f) ==
  \A i \in 1..(Len(records) - 1) : getTime(records[i][f]) >= getTime(records[i + 1][f])

\* sequence t holds what the sequence s holds, each record as often as s does
SameRecords(s, t) ==
  /\ Len(s) = Len(t)
  /\ \A x \in Range(s) \cup Range(t) :
       Cardinality({i \in 1..Len(s) : s[i] = x}) = Cardinality({i \in 1..Len(t) : t[i] = x})

\* C21: GET assets/{id} is answered 404 when no asset has the id; otherwise 200 with that
\* asset, exactly the scans of that asset latest scannedAt first and exactly the incidents of
\* that asset latest createdAt first; it changes nothing in the store.
C21_AssetDetail ==
  /\ [](op.kind = "GET /api/assets/:id" =>
          IF op.id \notin AssetIds
            THEN resp.status = 404
            ELSE /\ resp.status = 200
                 /\ resp.body.asset.id = op.id
                 /\ resp.body.asset \in Range(getAssets(db))
                 /\ LET OfAsset(x) == x.assetId = op.id
                    IN /\ SameRecords(resp.body.scans, SelectSeq(getScans(db), OfAsset))
                       /\ SameRecords(resp.body.incidents, SelectSeq(getIncidents(db), OfAsset))
                 /\ DescendingBy(resp.body.scans, "scannedAt")
                 /\ DescendingBy(resp.body.incidents, "createdAt"))
  /\ [][(op = Idle /\ op'.kind = "GET /api/assets/:id")
          => (StoreView' = StoreView /\ assetObj' = assetObj /\ incidentObj' = incidentObj
                /\ assets' = assets /\ incidents' = incidents)]_vars

\* the detail of asset-1 was read: two scans, the later one stored last and listed first, and
\* two incidents, the later one stored last and listed first
C21_Witness ==
  /\ op.kind = "GET /api/assets/:id"
  /\ op.id = "asset-1"
  /\ resp.status = 200
  /\ Len(resp.body.scans) = 2
  /\ resp.body.scans[1] = scans[Len(scans)]
  /\ getTime(resp.body.scans[1].scannedAt) > getTime(resp.body.scans[2].scannedAt)
  /\ Len(resp.body.incidents) = 2
  /\ resp.body.incidents[1].id = "incident-x2"
  /\ incidents[1] = "X1"

\* the request is within what its endpoint accepts, in the store as it is
Acceptable(request) ==
  /\ ActionOf(request.kind) \in RuleTable(EffectiveRole(request.role))
  /\ CASE request.kind = "GET /api/assets/:id" -> request.id \in AssetIds
       [] request.kind = "POST /api/scans" ->
            ScanBodyComplete(request.body) /\ request.body.assetId \in AssetIds
       [] request.kind = ResolveKind ->
            /\ request.body.reason \notin {Null, "", "   "}
            /\ OpenIncidentsOf(request.assetId) # {}
       [] OTHER -> TRUE

\* C22: every request is answered either with a success status or with status 400, 403 or
\* 404 and a body that holds the field error and nothing else, so that no exception leaves a
\* handler; and a request is answered with a success status only when its role is allowed
\* the action, its input is valid and what it addresses exists.
C22_FailuresAreTypedErrors ==
  /\ [](op.kind \in Endpoints =>
          \/ resp.status \in {200, 201}
          \/ (resp.status \in {400, 403, 404} /\ DOMAIN resp.body = {"error"}))
  /\ [][(op = Idle /\ op'.kind \in Endpoints /\ resp'.status \in {200, 201})
          => Acceptable(op')]_vars


\* C23: a create scan of a permitted role with complete fields for an existing asset is
\* answered 201 and adds exactly one scan, which holds the request's assetId, site and
\* readerId and the server's current time as scannedAt, the scans held before staying as
\* they were; every other request leaves the scans as they were.
C23_ScansAppendOnly ==
  [][(op = Idle /\ op'.kind \in Endpoints) =>
       IF op'.kind = "POST /api/scans" /\ Acceptable(op')
         THEN /\ resp'.status = 201
              /\ \E k \in 1..Len(scans') :
                   /\ RemoveAt(scans', k) = scans
                   /\ scans'[k].assetId = op'.body.assetId
                   /\ scans'[k].site = op'.body.site
                   /\ scans'[k].readerId = op'.body.readerId
                   /\ scans'[k].scannedAt = toISOString(now)
                   /\ resp'.body = scans'[k]
         ELSE scans' = scans]_vars

\* a scan of asset-1 was created after the clock had advanced: the store holds the seeded
\* scans and, after them, the new one stamped with the later time
C23_Witness ==
  /\ op.kind = "POST /api/scans"
  /\ resp.status = 201
  /\ now > NowInit
  /\ Len(scans) = Len(SeedScans) + 1
  /\ SubSeq(scans, 1, Len(SeedScans)) = SeedScans
  /\ scans[Len(scans)].scannedAt = toISOString(now)
  /\ scans[Len(scans)].assetId = "asset-1"


\* the fields of the asset object that differ between the two stores of objects
ChangedFields(before, after, a) == {f \in DOMAIN before[a] : after[a][f] # before[a][f]}

\* C27: no request adds or removes an asset; create scan changes at most lastSeenAt of the
\* scanned asset and resolve at most status of the addressed asset, and no request changes
\* another field or another asset; create scan leaves incidents and audit log as they were,
\* resolve leaves the scans and every incident but one of the addressed asset as they were.
C27_Frame ==
  [][(op = Idle /\ op'.kind \in Endpoints) =>
       /\ assets' = assets
       /\ DOMAIN assetObj' = DOMAIN assetObj
       /\ \A a \in DOMAIN assetObj :
            ChangedFields(assetObj, assetObj', a) \subseteq
              (IF op'.kind = "POST /api/scans" /\ assetObj[a].id = op'.body.assetId
                 THEN {"lastSeenAt"}
               ELSE IF op'.kind = ResolveKind /\ assetObj[a].id = op'.assetId
                 THEN {"status"}
               ELSE {})
       /\ op'.kind = "POST /api/scans" =>
            (incidents' = incidents /\ incidentObj' = incidentObj /\ auditLogs' = auditLogs)
       /\ op'.kind = ResolveKind =>
            /\ scans' = scans
            /\ incidents' = incidents
            /\ Cardinality({r \in DOMAIN incidentObj : incidentObj'[r] # incidentObj[r]}) <= 1
            /\ \A r \in DOMAIN incidentObj :
                 incidentObj'[r] # incidentObj[r] => incidentObj[r].assetId = op'.assetId
       /\ op'.kind \notin {"POST /api/scans", ResolveKind} =>
            (StoreView' = StoreView /\ incidentObj' = incidentObj)]_vars

\* asset-1 was scanned and then its incident resolved: its lastSeenAt and its status differ
\* from the seed, its other fields and the other asset are as seeded
C27_Witness ==
  /\ op.kind = ResolveKind
  /\ resp.status = 200
  /\ ChangedFields(SeedAssetObj, assetObj, "A1") = {"lastSeenAt", "status"}
  /\ ChangedFields(SeedAssetObj, assetObj, "A2") = {}
  /\ Len(scans) = Len(SeedScans) + 1


\* C28: from the default seed, in which an asset has at most one incident, an asset whose
\* status is resolved has no incident that is unresolved.
C28_ResolvedAssetHasNoOpenIncident ==
  \A a \in Range(assets) :
    assetObj[a].status = "resolved" => OpenIncidentsOf(assetObj[a].id) = {}

\* the incident of asset-1 was resolved by a request: the asset has status resolved, and
\* the one incident it has carries the time of the resolution
C28_Witness ==
  /\ op.kind = ResolveKind
  /\ op.assetId = "asset-1"
  /\ resp.status = 200
  /\ assetObj["A1"].status = "resolved"
  /\ incidentObj["I1"].resolvedAt # Null
  /\ \A r \in Range(incidents) : incidentObj[r].assetId = "asset-1" => r = "I1"


\* the position of an asset in the ascending order of the field: for lastSeenAt the time,
\* for severity the weight, for name, site and status the place in the alphabet
RECURSIVE CharsRank(_)
CharsRank(chars) ==
  IF chars = <<>> THEN 0
  ELSE IndexIn(CollationOfChars, Head(chars)) * 10 + CharsRank(Tail(chars))

AscendingRank(a, field) ==
  CASE field = "lastSeenAt" -> getTime(a.lastSeenAt)
    [] field = "severity" -> SEVERITY_WEIGHT[a.severity]
    [] field = "name" -> CharsRank(a.name)
    [] field = "site" -> IndexIn(CollationOfStrings, a.site)
    [] field = "status" -> IndexIn(CollationOfStrings, a.status)

\* C30: sortAssets returns a permutation of its input and leaves the input as it was; with
\* direction asc the result ascends in the field (lastSeenAt oldest first, severity least
\* severe first, name, site and status alphabetically), with direction desc it descends.
C30_SortAssets ==
  op.kind = "sortAssets" =>
    /\ SameRecords(resp.body, op.before)
    /\ op.after = op.before
    /\ \A i \in 1..(Len(resp.body) - 1) :
         IF op.sort.direction = "asc"
           THEN AscendingRank(resp.body[i], op.sort.field)
                  <= AscendingRank(resp.body[i + 1], op.sort.field)
           ELSE AscendingRank(resp.body[i], op.sort.field)
                  >= AscendingRank(resp.body[i + 1], op.sort.field)


\* the slot holds an answered resolve request of an admin with a reason, made while the
\* asset had exactly one open incident
AnsweredResolve(s) ==
  /\ flight[s].pc = "done"
  /\ Resolvable(flight[s].request)
  /\ flight[s].openAtCall = 1

\* the slot holds a request that resolved an incident of the asset
ResolvedBy(s, assetId) ==
  /\ flight[s].pc = "done"
  /\ flight[s].request.assetId = assetId
  /\ flight[s].resp.status = 200

\* C25: of two resolve requests for one asset that were in flight at once while the asset
\* had exactly one open incident, and no third request resolving it, one is answered 200 and the other 404 in whatever order
\* their steps run; the incident carries actor and reason of the request answered 200, and
\* the audit log has exactly one entry for its resolution.
C25_OneOfTwoResolves ==
  \A s1, s2 \in Slots :
    (s1 # s2 /\ AnsweredResolve(s1) /\ AnsweredResolve(s2)
       /\ flight[s1].request.assetId = flight[s2].request.assetId
       /\ \A s3 \in Slots \ {s1, s2} : ~ResolvedBy(s3, flight[s1].request.assetId))
      => /\ {flight[s1].resp.status, flight[s2].resp.status} = {200, 404}
         /\ flight[s1].resp.status = 200 =>
              \E r \in Range(incidents) :
                /\ incidentObj[r].assetId = flight[s1].request.assetId
                /\ incidentObj[r].id = flight[s1].resp.body.id
                /\ incidentObj[r].resolvedBy = ActorOf(flight[s1].request)
                /\ incidentObj[r].resolutionReason = trim(flight[s1].request.body.reason)
                /\ incidentObj[r].resolvedAt = flight[s1].resp.body.resolvedAt
                /\ Cardinality(ResolveEntriesFor(incidentObj[r].id)) = 1
                /\ \A k \in ResolveEntriesFor(incidentObj[r].id) :
                     auditLogs[k].userId = ActorOf(flight[s1].request)

\* two admins asked to resolve the incident of asset-1 and both passed the role check before
\* either was served; the second one's request was served first and is the one answered 200
C25_Witness ==
  /\ AnsweredResolve(1)
  /\ AnsweredResolve(2)
  /\ flight[1].request.userId = "admin-001"
  /\ flight[2].request.userId = "admin-002"
  /\ flight[1].resp.status = 404
  /\ flight[2].resp.status = 200
  /\ incidentObj["I1"].resolvedBy = "admin-002"


\* the incident was resolved by a request: the seed has it open, the store has it resolved
ResolvedByRequest(r) ==
  SeedIncidentObj[r].resolvedAt = Null /\ incidentObj[r].resolvedAt # Null

\* C26: in every state between the steps of interleaved requests, an incident that a
\* request resolved has exactly one incident.resolve entry among the audit entries added
\* since seeding, by the actor the incident names, and its asset has status resolved; an
\* incident that is open has no such entry.
C26_ResolutionAndAuditAreOneStep ==
  \A r \in Range(incidents) :
    /\ ResolvedByRequest(r) =>
         /\ Cardinality(ResolveEntriesFor(incidentObj[r].id)) = 1
         /\ \A k \in ResolveEntriesFor(incidentObj[r].id) :
              auditLogs[k].userId = incidentObj[r].resolvedBy
         /\ \A a \in Range(assets) :
              assetObj[a].id = incidentObj[r].assetId => assetObj[a].status = "resolved"
    /\ incidentObj[r].resolvedAt = Null => ResolveEntriesFor(incidentObj[r].id) = {}

\* the incident of asset-1 has just been resolved for one request while another request
\* for the same asset is past its role check and waits for its body
C26_Witness ==
  /\ ResolvedByRequest("I1")
  /\ \E s1, s2 \in Slots :
       /\ flight[s1].pc = "done"
       /\ flight[s1].resp.status = 200
       /\ flight[s2].pc = "awaiting body"
       /\ flight[s2].request.assetId = "asset-1"
  /\ Cardinality(ResolveEntriesFor("incident-1")) = 1


\* C29: a call is authorized with the role and attributed to the user id that the client
\* configuration held when the call was made: it is answered 403 exactly when that role may
\* not resolve, and a resolution names that user id in the incident and in the audit entry;
\* setClientConfig changes no request in flight and nothing in the store, and a call made
\* after it carries the new configuration.
C29_ConfigAtCallTime ==
  [][/\ \A s \in Slots :
          (flight[s].pc # "done" /\ flight'[s].pc = "done") =>
             /\ (flight'[s].resp.status = 403)
                  = ("resolve_incident" \notin RuleTable(flight[s].calledWith.role))
             /\ flight'[s].resp.status = 200 =>
                  /\ flight'[s].resp.body.resolvedBy = flight[s].calledWith.userId
                  /\ auditLogs'[1].userId = flight[s].calledWith.userId
     /\ config' # config => (flight' = flight /\ StoreView' = StoreView)
     /\ \A s \in Slots :
          (flight[s] = Free /\ flight'[s] # Free) =>
             flight'[s].headers = [role |-> config.role, userId |-> config.userId]]_vars

\* an admin's call was in flight when the configuration went back to operator and a second
\* call was made: the first resolved the incident in the admin's name, the second, made
\* while the incident was still open, is answered 403
C29_Witness ==
  /\ flight[1].pc = "done"
  /\ flight[1].calledWith = [role |-> "admin", userId |-> "admin-001"]
  /\ flight[1].resp.status = 200
  /\ flight[1].resp.body.resolvedBy = "admin-001"
  /\ flight[2].pc = "done"
  /\ flight[2].calledWith = [role |-> "operator", userId |-> "admin-001"]
  /\ flight[2].openAtCall = 1
  /\ flight[2].resp.status = 403
  /\ config.role = "operator"


====
